---- MODULE Spec2Model ----
(***************************************************************************)
(* Evvie time tracker, front end: interval overlap arithmetic, conflict    *)
(* detection, period navigation and configuration, the weekly hour         *)
(* summary, the exclusions of a day and the editing of shifts.             *)
(*                                                                         *)
(* Conventions.  A time string "HH:MM:SS" is the record [h, m, s] of the   *)
(* three numbers that split(':').map(Number) yields.  An ISO date string   *)
(* "YYYY-MM-DD" is its day number; the code compares dates as strings and  *)
(* for equal-width ISO strings that order is the order of day numbers.     *)
(***************************************************************************)
EXTENDS Integers, Sequences, FiniteSets, TLC

VARIABLES
    shift1, shift2, overlapResult,      \* one call of calculateTimeOverlap
    hoursResult,                        \* one call of calculateShiftHours
    allShifts, overlaps, rendered,      \* one call of detectAndDisplayOverlaps
    today, serverPeriods, nextPeriodId, \* the payroll service
    configures,                         \* configure requests served so far
    periods, currentPeriod, currentView, selectedChildId,   \* App fields
    periodLabel, toast,                 \* #period-label, #toast
    inflight,                           \* API requests awaiting their response
    lastNav, trail,                     \* the last navigatePeriod call; the
                                        \* periods visited by navigatePeriod(1)
    childShifts, timeZone, hourLimits,  \* inputs of the period summary
    summary,                            \* #period-summary
    currentExclusions,                  \* App.currentExclusions
    dateStr, dayExclusions,             \* one call of getExclusionsForDate
    storedShifts,                       \* the shifts the shifts API holds
    modal,                              \* the shift shown in #modal-body
    managerOverlaps,                    \* OverlapsManager.overlaps
    childBudgets, hoursCards,           \* budget and use of each child;
                                        \* #available-hours-cards
    history, projectionDisplay,         \* past shifts of each child;
                                        \* #projections-display
    calendar,                           \* #calendar-grid
    currentPage, pageSize, totalOverlaps,   \* OverlapsManager fields
    overlapsView,                       \* #overlaps-tbody and its controls
    csvFiles,                           \* number of files in #csv-file
    importView,                         \* #import-csv, #validate-csv,
                                        \* #import-loading
    importResults,                      \* #import-results
    serverExclusions,                   \* the exclusions the payroll API holds
    exclusionsPagination,               \* App.exclusionsPagination
    checkbox,                           \* #filter-future-exclusions
    exclusionsTable                     \* #exclusions-table tbody and
                                        \* #exclusions-pagination

overlapVars == <<shift1, shift2, overlapResult, hoursResult>>
detectVars  == <<allShifts, overlaps, rendered>>
serverVars  == <<today, serverPeriods, nextPeriodId, configures>>
appVars     == <<periods, currentPeriod, currentView, selectedChildId,
                 periodLabel, toast, inflight, lastNav, trail>>
navVars     == <<serverVars, appVars>>
summaryVars == <<childShifts, timeZone, hourLimits, summary>>
exclusionVars == <<currentExclusions, dateStr, dayExclusions>>
shiftVars == <<storedShifts, modal, managerOverlaps>>
forecastVars == <<childBudgets, hoursCards, history, projectionDisplay>>
csvVars == <<csvFiles, importView, importResults>>
tableVars == <<serverExclusions, exclusionsPagination, checkbox,
               exclusionsTable>>
viewVars == <<forecastVars, calendar, csvVars, tableVars>>
pageVars == <<currentPage, pageSize, totalOverlaps, overlapsView>>
vars == <<overlapVars, detectVars, navVars, summaryVars, exclusionVars,
          shiftVars, viewVars, pageVars>>

\* what the actions of one specification leave alone
exceptOverlap == <<detectVars, navVars, summaryVars, exclusionVars, shiftVars,
    viewVars, pageVars>>
exceptDetect  == <<overlapVars, navVars, summaryVars, exclusionVars, shiftVars,
    viewVars, pageVars>>
exceptNav     == <<overlapVars, detectVars, summaryVars, exclusionVars, shiftVars,
    viewVars, pageVars>>
exceptSummary == <<overlapVars, detectVars, serverVars, exclusionVars, shiftVars,
    viewVars, pageVars>>
exceptExclusion == <<overlapVars, detectVars, navVars, summaryVars, shiftVars,
    viewVars, pageVars>>
exceptShift == <<overlapVars, detectVars, serverVars, summaryVars, exclusionVars,
    viewVars>>

\* the values of the variables a specification does not use
OverlapIdle ==
    /\ shift1 = "null" /\ shift2 = "null"
    /\ overlapResult = "pending" /\ hoursResult = "pending"

DetectIdle == allShifts = <<>> /\ overlaps = <<>> /\ rendered = FALSE

NavIdle ==
    /\ today = 0 /\ serverPeriods = <<>> /\ nextPeriodId = 1 /\ configures = 0
    /\ periods = <<>> /\ currentPeriod = [null |-> TRUE] /\ currentView = "dashboard"
    /\ selectedChildId = 0 /\ periodLabel = [text |-> ""] /\ toast = ""
    /\ inflight = {} /\ lastNav = [null |-> TRUE] /\ trail = <<>>

SummaryIdle ==
    /\ childShifts = <<>> /\ timeZone = 0 /\ hourLimits = {}
    /\ summary = [null |-> TRUE]

ExclusionIdle ==
    /\ currentExclusions = <<>> /\ dateStr = 0 /\ dayExclusions = <<>>
    /\ storedShifts = <<>> /\ modal = [null |-> TRUE] /\ managerOverlaps = <<>>

ForecastIdle ==
    /\ childBudgets = <<>> /\ hoursCards = [text |-> ""]
    /\ history = <<>> /\ projectionDisplay = [text |-> ""]

\* the fields of a new OverlapsManager; nothing is rendered yet
PageIdle ==
    /\ currentPage = 1 /\ pageSize = 10 /\ totalOverlaps = 0
    /\ overlapsView = [null |-> TRUE]

\* the import controls as the page shows them
CsvIdle ==
    /\ csvFiles = 0
    /\ importView = [importBtn |-> [disabled |-> FALSE],
                     validateBtn |-> [disabled |-> FALSE],
                     loading |-> "none",
                     text |-> "Import in progress, please wait..."]
    /\ importResults = [text |-> ""]

\* the exclusions view before its first load: no pagination state, the
\* checkbox unchecked and without a listener, nothing rendered
TableIdle ==
    /\ serverExclusions = <<>>
    /\ exclusionsPagination = [null |-> TRUE]
    /\ checkbox = [checked |-> FALSE, hasListener |-> FALSE]
    /\ exclusionsTable = [null |-> TRUE]

ViewIdle ==
    /\ ForecastIdle /\ calendar = [null |-> TRUE] /\ PageIdle /\ CsvIdle
    /\ TableIdle

\* null as a duration string, as an object and as a child id
NoDuration == "null"
NULL == [null |-> TRUE]
NoChild == 0

T(hh, mm, ss) == [h |-> hh, m |-> mm, s |-> ss]

Max(a, b) == IF a > b THEN a ELSE b
Min(a, b) == IF a < b THEN a ELSE b

(***************************************************************************)
(* Input universe.                                                         *)
(***************************************************************************)
EmployeeIds == {1, 2}
ChildIds == {1, 2}
Dates == {1, 2}

\* start times a shift can have (the shift form appends ":00", the import
\* keeps whole minutes) and end times (the import writes a midnight end as
\* the sentinel 23:59:59)
StartTimes == {T(9,0,0), T(12,0,0), T(13,0,0), T(22,0,0), T(23,0,0), T(23,59,0)}
EndTimes == {T(12,0,0), T(13,0,0), T(13,30,0), T(15,0,0), T(23,0,0), T(23,59,59)}

Seconds(t) == t.h * 3600 + t.m * 60 + t.s

\* stored shifts satisfy start_time < end_time
TimeRanges == {r \in StartTimes \X EndTimes : Seconds(r[1]) < Seconds(r[2])}

\* the ranges used where whole lists of shifts are drawn
ListRanges == { <<T(9,0,0), T(13,0,0)>>, <<T(12,0,0), T(15,0,0)>>,
                <<T(13,0,0), T(15,0,0)>> }

\* the names the shifts API joins in from the employee and the child rows
EmployeeName(e) == IF e = 1 THEN "Ann" ELSE "Bob"
ChildName(c) == IF c = 1 THEN "Kim" ELSE "Lee"

MkShift(i, e, c, d, r) ==
    [id |-> i, employee_id |-> e, child_id |-> c, date |-> d,
     employee_name |-> EmployeeName(e), child_name |-> ChildName(c),
     start_time |-> r[1], end_time |-> r[2]]

\* longest list of shifts drawn for one detection
MaxShifts == 3

ShiftData == EmployeeIds \X ChildIds \X Dates \X ListRanges

\* a response of GET /api/shifts: rows with distinct ids
ShiftLists(n) ==
    { [i \in 1..n |-> MkShift(i, f[i][1], f[i][2], f[i][3], f[i][4])] :
          f \in [1..n -> ShiftData] }

(***************************************************************************)
(* calculateTimeOverlap and its helpers.                                   *)
(***************************************************************************)
timeToMinutes(timeStr) == timeStr.h * 60 + timeStr.m

padStart2(str) == IF Len(str) < 2 THEN "0" \o str ELSE str

minutesToDuration(minutes) ==
    LET hours == minutes \div 60
        mins == minutes % 60
    IN  ToString(hours) \o ":" \o padStart2(ToString(mins))

\* variant: touching shifts pass the comparison
calculateTimeOverlap_Touching(s1, s2) ==
    LET overlapStart == Max(timeToMinutes(s1.start_time), timeToMinutes(s2.start_time))
        overlapEnd == Min(timeToMinutes(s1.end_time), timeToMinutes(s2.end_time))
    IN  IF overlapStart <= overlapEnd
        THEN minutesToDuration(overlapEnd - overlapStart)
        ELSE NoDuration

\* variant: the overlap ends where the first shift ends
calculateTimeOverlap_FirstEnd(s1, s2) ==
    LET overlapStart == Max(timeToMinutes(s1.start_time), timeToMinutes(s2.start_time))
        overlapEnd == timeToMinutes(s1.end_time)
    IN  IF overlapStart < overlapEnd
        THEN minutesToDuration(overlapEnd - overlapStart)
        ELSE NoDuration

calculateTimeOverlap(s1, s2) ==
    LET start1 == timeToMinutes(s1.start_time)
        end1 == timeToMinutes(s1.end_time)
        start2 == timeToMinutes(s2.start_time)
        end2 == timeToMinutes(s2.end_time)
        overlapStart == Max(start1, start2)
        overlapEnd == Min(end1, end2)
    IN  IF overlapStart < overlapEnd
        THEN minutesToDuration(overlapEnd - overlapStart)
        ELSE NoDuration

(***************************************************************************)
(* calculateShiftHours.  The returned string is one of "H", "H.5" and      *)
(* "H:MM"; it is kept as its tokens: <<H>>, <<H, ".", 5>> and              *)
(* <<H, ":", <<M1, M2>>>> with M1 M2 the two digits padStart produces.     *)
(* Minutes with fractions (seconds / 60) are carried in seconds.           *)
(***************************************************************************)
SecondsPerDay == 24 * 3600

\* Math.round of a non-negative number of minutes given in seconds
RoundMinutes(secs) == (secs + 30) \div 60

padDigits(n) == IF n < 10 THEN <<0, n>> ELSE <<n \div 10, n % 10>>

calculateShiftHours(startTimeStr, endTimeStr) ==
    LET endStr == IF endTimeStr = T(23,59,59) THEN T(24,0,0) ELSE endTimeStr
        startTotal == Seconds(startTimeStr)
        endRaw == Seconds(endStr)
        endTotal == IF endRaw < startTotal THEN endRaw + SecondsPerDay ELSE endRaw
        total == endTotal - startTotal
        hours == total \div 3600
        minutes == RoundMinutes(total % 3600)
    IN  IF minutes = 0 THEN <<hours>>
        ELSE IF minutes = 30 THEN <<hours, ".", 5>>
        ELSE <<hours, ":", padDigits(minutes)>>

(***************************************************************************)
(* Specification SpecOverlap: two same-day shifts are drawn;               *)
(* calculateTimeOverlap is applied to the pair and calculateShiftHours to  *)
(* the first of them (as showShiftDetails does for the shift it shows).    *)
(***************************************************************************)
InitOverlap ==
    /\ \E e1 \in EmployeeIds, e2 \in EmployeeIds, c1 \in ChildIds,
          c2 \in ChildIds, d \in Dates, r1 \in TimeRanges, r2 \in TimeRanges :
          /\ shift1 = MkShift(1, e1, c1, d, r1)
          /\ shift2 = MkShift(2, e2, c2, d, r2)
    /\ overlapResult = "pending"
    /\ hoursResult = "pending"
    /\ DetectIdle
    /\ ViewIdle
    /\ NavIdle
    /\ SummaryIdle
    /\ ExclusionIdle

CalculateTimeOverlap ==
    /\ overlapResult = "pending"
    /\ overlapResult' = calculateTimeOverlap(shift1, shift2)
    /\ UNCHANGED <<shift1, shift2, hoursResult, exceptOverlap>>

ShowShiftDetails ==
    /\ hoursResult = "pending"
    /\ hoursResult' = calculateShiftHours(shift1.start_time, shift1.end_time)
    /\ UNCHANGED <<shift1, shift2, overlapResult, exceptOverlap>>

NextOverlap == CalculateTimeOverlap \/ ShowShiftDetails

SpecOverlap == InitOverlap /\ [][NextOverlap]_vars

(***************************************************************************)
(* Claims about calculateTimeOverlap (checked under SpecOverlap).          *)
(***************************************************************************)
Range(sh) == <<sh.start_time, sh.end_time>>

\* minute of the day of a time, seconds dropped
MinuteOf(t) == t.h * 60 + t.m

\* minute of the day of an end time with 23:59:59 read as 24:00
EndMinuteOf(t) == IF t = T(23,59,59) THEN 24 * 60 ELSE MinuteOf(t)

\* d minutes written H:MM
HMM(d) == ToString(d \div 60) \o ":" \o ToString((d % 60) \div 10)
              \o ToString((d % 60) % 10)

C3_SentinelIs2400 ==
    /\ (hoursResult # "pending" /\ Range(shift1) = <<T(22,0,0), T(23,59,59)>>)
           => hoursResult = <<2>>
    /\ overlapResult # "pending" =>
        LET lo == Max(MinuteOf(shift1.start_time), MinuteOf(shift2.start_time))
            hi == Min(EndMinuteOf(shift1.end_time), EndMinuteOf(shift2.end_time))
        IN  overlapResult = IF lo < hi THEN HMM(hi - lo) ELSE NoDuration

\* C4: the overlap is symmetric in its two shifts and is none whenever one
\* shift ends no later than the other starts.
C4_Symmetric ==
    overlapResult # "pending" =>
        /\ overlapResult = calculateTimeOverlap(shift2, shift1)
        /\ (\/ MinuteOf(shift1.end_time) <= MinuteOf(shift2.start_time)
            \/ MinuteOf(shift2.end_time) <= MinuteOf(shift1.start_time))
               => overlapResult = NoDuration

C4_Witness ==
    /\ Range(shift1) = <<T(9,0,0), T(13,0,0)>>
    /\ Range(shift2) = <<T(13,0,0), T(15,0,0)>>
    /\ overlapResult = NoDuration

(***************************************************************************)
(* detectAndDisplayOverlaps and renderOverlaps.                            *)
(***************************************************************************)
RECURSIVE SetToSortedSeq(_)
SetToSortedSeq(S) ==
    IF S = {} THEN <<>>
    ELSE LET m == CHOOSE x \in S : \A y \in S : x <= y
         IN  <<m>> \o SetToSortedSeq(S \ {m})

\* variant: the inner loop stops one element early
RECURSIVE LoopPairs_ShortInner(_, _, _)
LoopPairs_ShortInner(i, j, n) ==
    IF i >= n THEN <<>>
    ELSE IF j >= n THEN LoopPairs_ShortInner(i + 1, i + 2, n)
    ELSE <<<<i, j>>>> \o LoopPairs_ShortInner(i, j + 1, n)

\* the (i, j) of "for i ... for j = i + 1 ..." over n elements, in loop order
RECURSIVE LoopPairs(_, _, _)
LoopPairs(i, j, n) ==
    IF i >= n THEN <<>>
    ELSE IF j > n THEN LoopPairs(i + 1, i + 2, n)
    ELSE <<<<i, j>>>> \o LoopPairs(i, j + 1, n)

\* shiftsByEmployee[employeeId]: the employee's shifts in arrival order
shiftsByEmployee(shifts, employeeId) ==
    SelectSeq(shifts, LAMBDA sh : sh.employee_id = employeeId)

shiftsByChild(shifts, childId) ==
    SelectSeq(shifts, LAMBDA sh : sh.child_id = childId)

\* variant: the same-child test is missing
RECURSIVE EmployeeLoop_AnyChild(_, _)
EmployeeLoop_AnyChild(shifts, pairs) ==
    IF pairs = <<>> THEN <<>>
    ELSE LET s1 == shifts[Head(pairs)[1]]
             s2 == shifts[Head(pairs)[2]]
             overlap == calculateTimeOverlap(s1, s2)
             found == s1.date = s2.date /\ overlap # NoDuration
         IN  (IF found
              THEN <<[type |-> "employee", employee_name |-> s1.employee_name,
                      shift1 |-> s1, shift2 |-> s2, overlap_duration |-> overlap]>>
              ELSE <<>>) \o EmployeeLoop_AnyChild(shifts, Tail(pairs))

\* the nested loop over one employee's shifts
RECURSIVE EmployeeLoop(_, _)
EmployeeLoop(shifts, pairs) ==
    IF pairs = <<>> THEN <<>>
    ELSE LET s1 == shifts[Head(pairs)[1]]
             s2 == shifts[Head(pairs)[2]]
             overlap == calculateTimeOverlap(s1, s2)
             found == /\ s1.child_id # s2.child_id
                      /\ s1.date = s2.date
                      /\ overlap # NoDuration
         IN  (IF found
              THEN <<[type |-> "employee", employee_name |-> s1.employee_name,
                      shift1 |-> s1, shift2 |-> s2, overlap_duration |-> overlap]>>
              ELSE <<>>) \o EmployeeLoop(shifts, Tail(pairs))

\* the nested loop over one child's shifts
RECURSIVE ChildLoop(_, _)
ChildLoop(shifts, pairs) ==
    IF pairs = <<>> THEN <<>>
    ELSE LET s1 == shifts[Head(pairs)[1]]
             s2 == shifts[Head(pairs)[2]]
             overlap == calculateTimeOverlap(s1, s2)
             found == /\ s1.employee_id # s2.employee_id
                      /\ s1.date = s2.date
                      /\ overlap # NoDuration
         IN  (IF found
              THEN <<[type |-> "child", child_name |-> s1.child_name,
                      shift1 |-> s1, shift2 |-> s2, overlap_duration |-> overlap]>>
              ELSE <<>>) \o ChildLoop(shifts, Tail(pairs))

\* Object.entries of an object with integer keys yields them ascending
RECURSIVE EmployeeOverlaps(_, _)
EmployeeOverlaps(shifts, keys) ==
    IF keys = <<>> THEN <<>>
    ELSE LET group == shiftsByEmployee(shifts, Head(keys))
         IN  EmployeeLoop(group, LoopPairs(1, 2, Len(group)))
                 \o EmployeeOverlaps(shifts, Tail(keys))

RECURSIVE ChildOverlaps(_, _)
ChildOverlaps(shifts, keys) ==
    IF keys = <<>> THEN <<>>
    ELSE LET group == shiftsByChild(shifts, Head(keys))
         IN  ChildLoop(group, LoopPairs(1, 2, Len(group)))
                 \o ChildOverlaps(shifts, Tail(keys))

\* the comparator of renderOverlaps: date, then type ("child" < "employee")
OverlapBefore(a, b) ==
    \/ a.shift1.date < b.shift1.date
    \/ /\ a.shift1.date = b.shift1.date
       /\ a.type = "child" /\ b.type = "employee"

\* Array.prototype.sort is stable: an element goes behind its equals
RECURSIVE InsertOverlap(_, _)
InsertOverlap(sorted, x) ==
    IF sorted = <<>> THEN <<x>>
    ELSE IF OverlapBefore(x, Head(sorted)) THEN <<x>> \o sorted
    ELSE <<Head(sorted)>> \o InsertOverlap(Tail(sorted), x)

RECURSIVE SortOverlaps(_, _)
SortOverlaps(sorted, rest) ==
    IF rest = <<>> THEN sorted
    ELSE SortOverlaps(InsertOverlap(sorted, Head(rest)), Tail(rest))

\* the list renderOverlaps shows (empty: the container is cleared)
renderOverlaps(found) == SortOverlaps(<<>>, found)

detectAndDisplayOverlaps(shifts) ==
    LET employeeKeys == SetToSortedSeq({shifts[i].employee_id : i \in 1..Len(shifts)})
        childKeys == SetToSortedSeq({shifts[i].child_id : i \in 1..Len(shifts)})
    IN  renderOverlaps(EmployeeOverlaps(shifts, employeeKeys)
                           \o ChildOverlaps(shifts, childKeys))

(***************************************************************************)
(* Specification SpecDetect: a list of shifts is drawn, as the response to *)
(* the dashboard's all-shifts request, and detectAndDisplayOverlaps runs   *)
(* on it.                                                                  *)
(***************************************************************************)
InitDetect ==
    /\ \E n \in 0..MaxShifts : allShifts \in ShiftLists(n)
    /\ overlaps = <<>>
    /\ rendered = FALSE
    /\ OverlapIdle
    /\ ViewIdle
    /\ NavIdle
    /\ SummaryIdle
    /\ ExclusionIdle

\* variant: detection resolves what it finds, deleting the second shift of
\* every conflict
DetectAndDisplayOverlaps_Resolving ==
    LET found == detectAndDisplayOverlaps(allShifts)
        losers == {found[k].shift2.id : k \in 1..Len(found)}
    IN  /\ ~rendered
        /\ overlaps' = found
        /\ rendered' = TRUE
        /\ allShifts' = SelectSeq(allShifts, LAMBDA sh : sh.id \notin losers)
        /\ inflight' = inflight \cup
               {[req |-> "DELETE /api/shifts", then |-> "none", id |-> i] :
                    i \in losers}
        /\ UNCHANGED <<overlapVars, serverVars, periods, currentPeriod,
                       currentView, selectedChildId, periodLabel, toast,
                       lastNav, trail, summaryVars, exclusionVars, shiftVars,
                       viewVars, pageVars>>

DetectAndDisplayOverlaps ==
    /\ ~rendered
    /\ overlaps' = detectAndDisplayOverlaps(allShifts)
    /\ rendered' = TRUE
    /\ UNCHANGED <<allShifts, exceptDetect>>

NextDetect == DetectAndDisplayOverlaps

SpecDetect == InitDetect /\ [][NextDetect]_vars

(***************************************************************************)
(* Claims about detectAndDisplayOverlaps (checked under SpecDetect).       *)
(***************************************************************************)
\* the two shifts' minute ranges share a stretch of positive length
PositiveOverlap(a, b) ==
    Max(MinuteOf(a.start_time), MinuteOf(b.start_time))
        < Min(MinuteOf(a.end_time), MinuteOf(b.end_time))

ShiftPairs == {p \in (1..Len(allShifts)) \X (1..Len(allShifts)) : p[1] < p[2]}

\* the reported conflicts of a type between the shifts at positions p
Reports(p, type) ==
    {k \in 1..Len(overlaps) :
        /\ overlaps[k].type = type
        /\ {overlaps[k].shift1, overlaps[k].shift2} = {allShifts[p[1]], allShifts[p[2]]}}

EmployeeConflict(a, b) ==
    /\ a.employee_id = b.employee_id /\ a.date = b.date
    /\ a.child_id # b.child_id /\ PositiveOverlap(a, b)

ChildConflict(a, b) ==
    /\ a.child_id = b.child_id /\ a.date = b.date
    /\ a.employee_id # b.employee_id /\ PositiveOverlap(a, b)

PeriodDays == 14

\* number of periods one configure call generates
HorizonPeriods == 3

\* configure requests served in one run
MaxConfigures == 1

\* anchor dates entered in the settings form, around today
Anchors == {86, 95, 104}
Todays == {100, 110}

\* the most recent anchor-aligned date <= day
AlignedStart(anchor, day) ==
    IF anchor <= day
    THEN day - ((day - anchor) % PeriodDays)
    ELSE day - ((PeriodDays - ((anchor - day) % PeriodDays)) % PeriodDays)

\* configure(anchor_date): the regenerated sequence, ids from firstId on
GeneratePeriods(anchor, day, firstId) ==
    [k \in 1..HorizonPeriods |->
        [id |-> firstId + k - 1,
         start_date |-> AlignedStart(anchor, day) + PeriodDays * (k - 1),
         end_date |-> AlignedStart(anchor, day) + PeriodDays * (k - 1)
                          + (PeriodDays - 1)]]

\* current(): the period containing the day, or none
CurrentOf(list, day) ==
    LET hits == {k \in 1..Len(list) :
                    list[k].start_date <= day /\ day <= list[k].end_date}
    IN  IF hits = {} THEN NULL ELSE list[CHOOSE k \in hits : TRUE]

(***************************************************************************)
(* App: navigatePeriod, loadInitialData, loadCurrentPeriod, loadDashboard, *)
(* showView and configurePeriods.  An await is the boundary between two    *)
(* actions: the request is put in inflight, its response is an action.     *)
(***************************************************************************)
Views == {"dashboard", "config"}

\* Array.prototype.findIndex(p => p.id === id): 0-based, -1 when absent
findIndex(list, id) ==
    LET hits == {k \in 1..Len(list) : list[k].id = id}
    IN  IF hits = {} THEN -1
        ELSE (CHOOSE k \in hits : \A j \in hits : k <= j) - 1

\* variant: the index wraps around at both ends
navigatePeriod_Wrap(direction, list, cur) ==
    IF cur = NULL
    THEN [outcome |-> "TypeError", currentPeriod |-> cur, loadDashboard |-> FALSE]
    ELSE LET currentIndex == findIndex(list, cur.id)
             newIndex == (currentIndex + direction + Len(list)) % Len(list)
         IN  [outcome |-> "returned", currentPeriod |-> list[newIndex + 1],
              loadDashboard |-> TRUE]

\* variant: the step is taken against the direction
navigatePeriod_Reversed(direction, list, cur) ==
    IF cur = NULL
    THEN [outcome |-> "TypeError", currentPeriod |-> cur, loadDashboard |-> FALSE]
    ELSE LET currentIndex == findIndex(list, cur.id)
             newIndex == currentIndex - direction
         IN  IF newIndex >= 0 /\ newIndex < Len(list)
             THEN [outcome |-> "returned", currentPeriod |-> list[newIndex + 1],
                   loadDashboard |-> TRUE]
             ELSE [outcome |-> "returned", currentPeriod |-> cur,
                   loadDashboard |-> FALSE]

\* variant: a step out of range is reported as an error
navigatePeriod_Throws(direction, list, cur) ==
    IF cur = NULL
    THEN [outcome |-> "TypeError", currentPeriod |-> cur, loadDashboard |-> FALSE]
    ELSE LET currentIndex == findIndex(list, cur.id)
             newIndex == currentIndex + direction
         IN  IF newIndex >= 0 /\ newIndex < Len(list)
             THEN [outcome |-> "returned", currentPeriod |-> list[newIndex + 1],
                   loadDashboard |-> TRUE]
             ELSE [outcome |-> "OutOfRange", currentPeriod |-> cur,
                   loadDashboard |-> FALSE]

\* navigatePeriod(direction) on this.periods = list, this.currentPeriod = cur:
\* how the call ends, the new this.currentPeriod, whether loadDashboard runs.
\* Reading this.currentPeriod.id of a null currentPeriod throws a TypeError.
navigatePeriod(direction, list, cur) ==
    IF cur = NULL
    THEN [outcome |-> "TypeError", currentPeriod |-> cur, loadDashboard |-> FALSE]
    ELSE LET currentIndex == findIndex(list, cur.id)
             newIndex == currentIndex + direction
         IN  IF newIndex >= 0 /\ newIndex < Len(list)
             THEN [outcome |-> "returned", currentPeriod |-> list[newIndex + 1],
                   loadDashboard |-> TRUE]
             ELSE [outcome |-> "returned", currentPeriod |-> cur,
                   loadDashboard |-> FALSE]

\* the part of loadDashboard that runs before its first await: the label
loadDashboardLabel(cur, childId, label) ==
    IF cur = NULL \/ childId = NoChild THEN label
    ELSE [start_date |-> cur.start_date, end_date |-> cur.end_date]

Request(kind, cont) == [req |-> kind, then |-> cont]

InitNav ==
    /\ today \in Todays
    /\ \/ serverPeriods = <<>> /\ nextPeriodId = 1
       \/ \E a \in Anchors :
              /\ serverPeriods = GeneratePeriods(a, today, 1)
              /\ nextPeriodId = HorizonPeriods + 1
       \* a sequence configured so long ago that it ends before today
       \/ \E a \in Anchors :
              /\ serverPeriods =
                     GeneratePeriods(a, today - PeriodDays * HorizonPeriods, 1)
              /\ nextPeriodId = HorizonPeriods + 1
    /\ configures = 0
    /\ periods = <<>>
    /\ currentPeriod = NULL
    /\ currentView = "dashboard"
    /\ selectedChildId = NoChild
    /\ periodLabel = [text |-> ""]
    /\ toast = ""
    /\ inflight = {Request("initial", "none")}
    /\ lastNav = NULL
    /\ trail = <<>>
    /\ OverlapIdle
    /\ ViewIdle
    /\ DetectIdle
    /\ SummaryIdle
    /\ ExclusionIdle

\* a click on #prev-period (direction 1) or #next-period (direction -1)
NavigatePeriod(direction) ==
    LET r == navigatePeriod(direction, periods, currentPeriod)
    IN  /\ currentPeriod' = r.currentPeriod
        /\ periodLabel' = IF r.loadDashboard
                          THEN loadDashboardLabel(r.currentPeriod, selectedChildId,
                                                  periodLabel)
                          ELSE periodLabel
        /\ lastNav' = [direction |-> direction, before |-> currentPeriod,
                       list |-> periods, toast |-> toast, outcome |-> r.outcome]
        /\ trail' = IF r.currentPeriod = currentPeriod THEN trail
                    ELSE IF direction = 1 /\ trail # <<>>
                         THEN Append(trail, r.currentPeriod)
                         ELSE <<>>
        /\ UNCHANGED <<serverVars, periods, currentView, selectedChildId,
                       toast, inflight, exceptNav>>

ClickPrevPeriod == NavigatePeriod(1)

ClickNextPeriod == NavigatePeriod(-1)

\* a click on a navigation button
ShowView(viewName) ==
    /\ currentView' = viewName
    /\ periodLabel' = IF viewName = "dashboard"
                      THEN loadDashboardLabel(currentPeriod, selectedChildId,
                                              periodLabel)
                      ELSE periodLabel
    /\ lastNav' = NULL
    /\ UNCHANGED <<serverVars, periods, currentPeriod, selectedChildId, toast,
                   inflight, trail, exceptNav>>

\* configurePeriods with no anchor date entered
ConfigureNoAnchor ==
    /\ toast' = "Please select an anchor date"
    /\ lastNav' = NULL
    /\ UNCHANGED <<serverVars, periods, currentPeriod, currentView,
                   selectedChildId, periodLabel, inflight, trail,
                   exceptNav>>

\* the configure requests sent and not yet answered
ConfiguresInFlight ==
    {q \in inflight : q.req \in {"configure", "rebuild"}}

\* configurePeriods, confirmed: the POST is sent; the handler looks at no
\* earlier request, the limit only bounds the clicks of one run
ConfigurePeriodsWithin(anchor, limit) ==
    /\ configures + Cardinality(ConfiguresInFlight) < limit
    /\ inflight' = inflight \cup {[req |-> "configure", then |-> "configure",
                                   anchor |-> anchor]}
    /\ lastNav' = NULL
    /\ UNCHANGED <<serverVars, periods, currentPeriod, currentView,
                   selectedChildId, periodLabel, toast, trail,
                   exceptNav>>

ConfigurePeriods(anchor) == ConfigurePeriodsWithin(anchor, MaxConfigures)

\* the service deletes the sequence and regenerates it; the new rows get the
\* ids after the deleted ones or start again at 1
ConfigureResponse(q) ==
    /\ q \in inflight /\ q.req = "configure"
    /\ \E firstId \in {1, nextPeriodId} :
           /\ serverPeriods' = GeneratePeriods(q.anchor, today, firstId)
           /\ nextPeriodId' = firstId + HorizonPeriods
    /\ configures' = configures + 1
    /\ toast' = "Payroll periods configured successfully"
    /\ inflight' = (inflight \ {q}) \cup {Request("initial", "configure")}
    /\ lastNav' = NULL
    /\ UNCHANGED <<today, periods, currentPeriod, currentView, selectedChildId,
                   periodLabel, trail, exceptNav>>

\* the POST fails: the catch block shows the error
ConfigureFailed(q) ==
    /\ q \in inflight /\ q.req = "configure"
    /\ toast' = "API request failed"
    /\ inflight' = inflight \ {q}
    /\ lastNav' = NULL
    /\ UNCHANGED <<serverVars, periods, currentPeriod, currentView,
                   selectedChildId, periodLabel, trail,
                   exceptNav>>

\* loadInitialData after its Promise.all: the fields are set, then
\* loadCurrentPeriod is called when the dashboard is the current view
LoadInitialDataResponse(q) ==
    /\ q \in inflight /\ q.req = "initial"
    /\ periods' = serverPeriods
    /\ selectedChildId' = IF selectedChildId = NoChild
                          THEN CHOOSE c \in ChildIds : \A d \in ChildIds : c <= d
                          ELSE selectedChildId
    /\ inflight' = (inflight \ {q}) \cup
                       (IF currentView = "dashboard"
                        THEN {Request("current", q.then)} ELSE {})
    /\ trail' = <<>>
    /\ lastNav' = NULL
    /\ UNCHANGED <<serverVars, currentPeriod, currentView, periodLabel, toast,
                   exceptNav>>

\* loadInitialData's catch block; configurePeriods, which awaited it, goes on
\* to its own loadCurrentPeriod call when the dashboard is the current view
LoadInitialDataFailed(q) ==
    /\ q \in inflight /\ q.req = "initial"
    /\ toast' = "Failed to load initial data"
    /\ inflight' = (inflight \ {q}) \cup
                       (IF q.then = "configure" /\ currentView = "dashboard"
                        THEN {Request("current", "none")} ELSE {})
    /\ lastNav' = NULL
    /\ UNCHANGED <<serverVars, periods, currentPeriod, currentView,
                   selectedChildId, periodLabel, trail,
                   exceptNav>>

\* variant: the catch block also forgets the current period
LoadCurrentPeriodResponse_Clears(q) ==
    /\ q \in inflight /\ q.req = "current"
    /\ LET period == CurrentOf(serverPeriods, today)
       IN  IF period # NULL
           THEN /\ currentPeriod' = period
                /\ periodLabel' = loadDashboardLabel(period, selectedChildId,
                                                     periodLabel)
                /\ trail' = <<period>>
           ELSE /\ periodLabel' = [text |-> "No periods configured"]
                /\ currentPeriod' = NULL
                /\ UNCHANGED trail
    /\ inflight' = (inflight \ {q}) \cup
                       (IF q.then = "configure" /\ currentView = "dashboard"
                        THEN {Request("current", "none")} ELSE {})
    /\ lastNav' = NULL
    /\ UNCHANGED <<serverVars, periods, currentView, selectedChildId, toast,
                   exceptNav>>

\* loadCurrentPeriod after its await: the period containing today is stored
\* and loadDashboard runs, or the request failed and the catch block runs;
\* configurePeriods then calls loadCurrentPeriod once more on the dashboard
LoadCurrentPeriodResponse(q) ==
    /\ q \in inflight /\ q.req = "current"
    /\ LET period == CurrentOf(serverPeriods, today)
       IN  IF period # NULL
           THEN /\ currentPeriod' = period
                /\ periodLabel' = loadDashboardLabel(period, selectedChildId,
                                                     periodLabel)
                /\ trail' = <<period>>
           ELSE /\ periodLabel' = [text |-> "No periods configured"]
                /\ UNCHANGED <<currentPeriod, trail>>
    /\ inflight' = (inflight \ {q}) \cup
                       (IF q.then = "configure" /\ currentView = "dashboard"
                        THEN {Request("current", "none")} ELSE {})
    /\ lastNav' = NULL
    /\ UNCHANGED <<serverVars, periods, currentView, selectedChildId, toast,
                   exceptNav>>

NextNav ==
    \/ ClickPrevPeriod
    \/ ClickNextPeriod
    \/ \E v \in Views : ShowView(v)
    \/ ConfigureNoAnchor
    \/ \E a \in Anchors : ConfigurePeriods(a)
    \/ \E q \in inflight : ConfigureResponse(q)
    \/ \E q \in inflight : ConfigureFailed(q)
    \/ \E q \in inflight : LoadInitialDataResponse(q)
    \/ \E q \in inflight : LoadInitialDataFailed(q)
    \/ \E q \in inflight : LoadCurrentPeriodResponse(q)

SpecNav == InitNav /\ [][NextNav]_vars

(***************************************************************************)
(* Claims about navigatePeriod (checked under SpecNav).                    *)
(***************************************************************************)
\* the positions of the period a navigatePeriod call started from
StartIndexes == {i \in 1..Len(lastNav.list) : lastNav.list[i] = lastNav.before}

\* the call just made started on an element of periods
NavFromElement == lastNav # NULL /\ lastNav.before # NULL /\ StartIndexes # {}

\* the call just made asked for a step past the first or the last period
NavPastEnd ==
    /\ NavFromElement
    /\ \E i \in StartIndexes :
           i + lastNav.direction < 1 \/ i + lastNav.direction > Len(lastNav.list)

\* C6: navigatePeriod(d), called while currentPeriod is the element at index
\* i of periods, sets currentPeriod to the element at index i + d when that
\* index exists; at either end it does not wrap around and leaves
\* currentPeriod unchanged; periods is unchanged in both cases.
C6_NavigateAdjacent ==
    NavFromElement =>
        \A i \in StartIndexes :
            LET j == i + lastNav.direction
            IN  /\ periods = lastNav.list
                /\ currentPeriod = IF 1 <= j /\ j <= Len(lastNav.list)
                                   THEN lastNav.list[j]
                                   ELSE lastNav.before

C6_Witness ==
    /\ NavFromElement
    /\ lastNav.direction = 1
    /\ lastNav.before = periods[1]
    /\ currentPeriod = periods[2]

StuckForward ==
    lastNav # NULL /\ lastNav.direction = 1 /\ currentPeriod = lastNav.before

MinutesPerDay == 24 * 60

\* longest list of shifts drawn for one summary
MaxSummaryShifts == 2

\* the browser's time zone, in minutes east of UTC
TimeZones == {-300, 0, 60}

SummaryRanges == { <<T(0,0,0), T(20,0,0)>>, <<T(0,0,0), T(20,30,0)>>,
                   <<T(9,0,0), T(13,45,0)>>, <<T(0,0,0), T(23,59,59)>> }

HourLimit(e, c, max) ==
    [employee_id |-> e, child_id |-> c, max_hours_per_week |-> max]

\* the hour limits configured in the settings view
LimitSets == { {}, {HourLimit(1, 1, 20)}, {HourLimit(1, 1, 40)},
               {HourLimit(1, 1, 50)} }

\* new Date(start_date + 'T00:00:00') is local midnight, setDate(+7) moves
\* it seven local days on, toISOString() prints the UTC date of that instant
weekBoundaryStr(start_date, zone) ==
    ((start_date + 7) * MinutesPerDay - zone) \div MinutesPerDay

\* parseFloat of "H" or "H.D": H + D / 10 hours
parseFloatHours(hoursStr) ==
    IF Len(hoursStr) = 1 THEN hoursStr[1] * 60
    ELSE hoursStr[1] * 60 + hoursStr[3] * 6

\* variant: the minutes of "H:MM" are read as a decimal fraction
parseHours_Decimal(hoursStr) ==
    IF Len(hoursStr) = 3 /\ hoursStr[2] = ":"
    THEN hoursStr[1] * 60 + ((hoursStr[3][1] * 10 + hoursStr[3][2]) * 60) \div 100
    ELSE parseFloatHours(hoursStr)

parseHours(hoursStr) ==
    IF Len(hoursStr) = 3 /\ hoursStr[2] = ":"
    THEN hoursStr[1] * 60 + (hoursStr[3][1] * 10 + hoursStr[3][2])
    ELSE parseFloatHours(hoursStr)

\* Number.prototype.toFixed(2) of sixtieths of an hour, in hundredths
toFixed2(sixtieths) == (sixtieths * 100 + 30) \div 60

\* variant: a shift's hours replace the employee's totals ("=" for "+=")
RECURSIVE employeeWeeklyHours_Assign(_, _, _)
employeeWeeklyHours_Assign(shifts, name, boundary) ==
    IF shifts = <<>> THEN [week1 |-> 0, week2 |-> 0, total |-> 0]
    ELSE LET shift == Head(shifts)
             rest == employeeWeeklyHours_Assign(Tail(shifts), name, boundary)
             hours == calculateShiftHours(shift.start_time, shift.end_time)
             hoursNum == parseHours(hours)
             isWeek1 == shift.date < boundary
         IN  IF shift.employee_name # name \/ rest.total > 0 THEN rest
             ELSE [week1 |-> IF isWeek1 THEN hoursNum ELSE 0,
                   week2 |-> IF isWeek1 THEN 0 ELSE hoursNum,
                   total |-> hoursNum]

\* the forEach over shifts: week1, week2 and total of one employee name
RECURSIVE employeeWeeklyHours(_, _, _)
employeeWeeklyHours(shifts, name, boundary) ==
    IF shifts = <<>> THEN [week1 |-> 0, week2 |-> 0, total |-> 0]
    ELSE LET shift == Head(shifts)
             rest == employeeWeeklyHours(Tail(shifts), name, boundary)
             hours == calculateShiftHours(shift.start_time, shift.end_time)
             hoursNum == parseHours(hours)
             isWeek1 == shift.date < boundary
         IN  IF shift.employee_name # name THEN rest
             ELSE [week1 |-> rest.week1 + (IF isWeek1 THEN hoursNum ELSE 0),
                   week2 |-> rest.week2 + (IF isWeek1 THEN 0 ELSE hoursNum),
                   total |-> rest.total + hoursNum]

RECURSIVE totalHoursOf(_)
totalHoursOf(shifts) ==
    IF shifts = <<>> THEN 0
    ELSE parseHours(calculateShiftHours(Head(shifts).start_time,
                                        Head(shifts).end_time))
             + totalHoursOf(Tail(shifts))

\* the threshold of the hours-warning class
WarningHours == 40

\* one rendered employee-section: the toFixed(2) strings and the
\* hours-warning class of the two week rows
EmployeeSection(name, hours) ==
    [name |-> name,
     week1 |-> toFixed2(hours.week1),
     week2 |-> toFixed2(hours.week2),
     total |-> toFixed2(hours.total),
     warning1 |-> toFixed2(hours.week1) > WarningHours * 100,
     warning2 |-> toFixed2(hours.week2) > WarningHours * 100]

\* the names in localeCompare order
RECURSIVE SortedNames(_)
SortedNames(S) ==
    IF S = {} THEN <<>>
    ELSE LET first == CHOOSE e \in S : \A f \in S : e <= f
         IN  <<EmployeeName(first)>> \o SortedNames(S \ {first})

renderChildSummaryFromShifts(shifts, period, zone) ==
    LET boundary == weekBoundaryStr(period.start_date, zone)
        names == SortedNames({shifts[i].employee_id : i \in 1..Len(shifts)})
    IN  [totalHours |-> toFixed2(totalHoursOf(shifts)),
         employeeBreakdown |->
             [k \in 1..Len(names) |->
                 EmployeeSection(names[k],
                                 employeeWeeklyHours(shifts, names[k], boundary))]]

(***************************************************************************)
(* Specification SpecSummary: a period is current, a child is selected,    *)
(* the child's shifts of the period have arrived and the summary is        *)
(* rendered from them.                                                     *)
(***************************************************************************)
SummaryDates(period) ==
    {period.start_date, period.start_date + 6, period.start_date + 7,
     period.end_date}

SummaryShiftLists(n, period, childId) ==
    { [i \in 1..n |-> MkShift(i, f[i][1], childId, f[i][2], f[i][3])] :
          f \in [1..n -> EmployeeIds \X SummaryDates(period) \X SummaryRanges] }

\* the orders in which GET /api/shifts can list the same rows
Orderings(shifts) ==
    { [i \in 1..Len(shifts) |-> shifts[p[i]]] :
          p \in { q \in [1..Len(shifts) -> 1..Len(shifts)] :
                      \A i, j \in 1..Len(shifts) : q[i] = q[j] => i = j } }

InitSummary ==
    /\ today \in Todays
    /\ serverPeriods = GeneratePeriods(today, today, 1)
    /\ nextPeriodId = HorizonPeriods + 1
    /\ configures = 0
    /\ periods = serverPeriods
    /\ currentPeriod = serverPeriods[1]
    /\ currentView = "dashboard"
    /\ selectedChildId = 1
    /\ periodLabel = loadDashboardLabel(currentPeriod, selectedChildId,
                                        [text |-> ""])
    /\ toast = ""
    /\ inflight = {}
    /\ lastNav = NULL
    /\ trail = <<>>
    /\ timeZone \in TimeZones
    /\ hourLimits \in LimitSets
    /\ \E n \in 0..MaxSummaryShifts :
           childShifts \in SummaryShiftLists(n, currentPeriod, selectedChildId)
    /\ summary = NULL
    /\ OverlapIdle
    /\ ViewIdle
    /\ DetectIdle
    /\ ExclusionIdle

RenderChildSummaryFromShifts ==
    /\ summary = NULL
    /\ summary' = renderChildSummaryFromShifts(childShifts, currentPeriod, timeZone)
    /\ UNCHANGED <<childShifts, timeZone, hourLimits, appVars, exceptSummary>>

\* loadDashboard runs again for the same period and child (the child filter
\* is set again): the same rows arrive in some order and the summary is
\* rendered from them
ReloadDashboard ==
    /\ summary # NULL
    /\ \E shifts \in Orderings(childShifts) :
           /\ childShifts' = shifts
           /\ summary' = renderChildSummaryFromShifts(shifts, currentPeriod,
                                                      timeZone)
    /\ UNCHANGED <<timeZone, hourLimits, appVars, exceptSummary>>

NextSummary == RenderChildSummaryFromShifts

SpecSummary == InitSummary /\ [][NextSummary]_vars

(***************************************************************************)
(* Claims about the hour summary (checked under SpecSummary).              *)
(***************************************************************************)
\* the hours the summary adds for the shifts of one employee name dated
\* from day lo to day hi, in sixtieths
RECURSIVE HoursBetween(_, _, _, _)
HoursBetween(shifts, name, lo, hi) ==
    IF shifts = <<>> THEN 0
    ELSE (IF /\ Head(shifts).employee_name = name
             /\ lo <= Head(shifts).date /\ Head(shifts).date <= hi
          THEN parseHours(calculateShiftHours(Head(shifts).start_time,
                                              Head(shifts).end_time))
          ELSE 0) + HoursBetween(Tail(shifts), name, lo, hi)

\* C9: every shift dated in [start, start + 6] counts in week 1 only and
\* every shift dated in [start + 7, end] counts in week 2 only.
C9_WeekSplit ==
    summary # NULL =>
        \A k \in 1..Len(summary.employeeBreakdown) :
            LET row == summary.employeeBreakdown[k]
                start == currentPeriod.start_date
            IN  /\ row.week1 = toFixed2(HoursBetween(childShifts, row.name,
                                                     start, start + 6))
                /\ row.week2 = toFixed2(HoursBetween(childShifts, row.name,
                                                     start + 7,
                                                     currentPeriod.end_date))

\* the limits configured for the employee of a row and the selected child
LimitsFor(name) ==
    {l \in hourLimits : EmployeeName(l.employee_id) = name
                        /\ l.child_id = selectedChildId}

\* C10: for each employee and week the breach flag is raised exactly when
\* the week's total exceeds max_hours_per_week of the limit configured for
\* the (employee, child) pair, each week by itself.
C10_BreachAtLimit ==
    summary # NULL =>
        \A k \in 1..Len(summary.employeeBreakdown) :
            LET row == summary.employeeBreakdown[k]
            IN  \A l \in LimitsFor(row.name) :
                    /\ row.warning1 <=> row.week1 > l.max_hours_per_week * 100
                    /\ row.warning2 <=> row.week2 > l.max_hours_per_week * 100

(***************************************************************************)
(* Specification SpecAggregate: the summary of a child's shifts is         *)
(* rendered and rendered again as the dashboard reloads.  The shifts are   *)
(* drawn with durations of each of the forms "H", "H.5" and "H:MM", on the *)
(* first day of either week of the period.                                 *)
(***************************************************************************)
AggregateRanges == { <<T(9,0,0), T(13,30,0)>>, <<T(9,15,0), T(14,0,0)>>,
                     <<T(22,0,0), T(23,59,59)>>, <<T(23,59,0), T(23,59,59)>> }

AggregateDates(period) == {period.start_date, period.start_date + 7}

AggregateShiftLists(n, period, childId) ==
    { [i \in 1..n |-> MkShift(i, f[i][1], childId, f[i][2], f[i][3])] :
          f \in [1..n -> EmployeeIds \X AggregateDates(period)
                                     \X AggregateRanges] }

InitAggregate ==
    /\ today = CHOOSE d \in Todays : \A e \in Todays : d <= e
    /\ serverPeriods = GeneratePeriods(today, today, 1)
    /\ nextPeriodId = HorizonPeriods + 1
    /\ configures = 0
    /\ periods = serverPeriods
    /\ currentPeriod = serverPeriods[1]
    /\ currentView = "dashboard"
    /\ selectedChildId = 1
    /\ periodLabel = loadDashboardLabel(currentPeriod, selectedChildId,
                                        [text |-> ""])
    /\ toast = ""
    /\ inflight = {}
    /\ lastNav = NULL
    /\ trail = <<>>
    /\ timeZone \in TimeZones
    /\ hourLimits = {}
    /\ \E n \in 0..MaxSummaryShifts :
           childShifts \in AggregateShiftLists(n, currentPeriod, selectedChildId)
    /\ summary = NULL
    /\ OverlapIdle
    /\ ViewIdle
    /\ DetectIdle
    /\ ExclusionIdle

NextAggregate == RenderChildSummaryFromShifts \/ ReloadDashboard

SpecAggregate == InitAggregate /\ [][NextAggregate]_vars

(***************************************************************************)
(* Claims about the aggregation of hours (checked under SpecAggregate).    *)
(***************************************************************************)
\* the week1, week2 and total a summary shows for each employee name
HoursByName(s) ==
    { <<s.employeeBreakdown[k].name, s.employeeBreakdown[k].week1,
        s.employeeBreakdown[k].week2, s.employeeBreakdown[k].total>> :
          k \in 1..Len(s.employeeBreakdown) }

\* C11: computing the summary again for the same period and the same set of
\* shifts, given in any order, yields the same week1, week2 and total for
\* every employee.
C11_OrderIndependent ==
    summary # NULL =>
        \A shifts \in Orderings(childShifts) :
            HoursByName(renderChildSummaryFromShifts(shifts, currentPeriod,
                                                     timeZone))
                = HoursByName(summary)

\* the summary was rendered again from two shifts of one employee that
\* arrived in the other order and differ in length and in week
C11_Witness ==
    /\ summary # NULL
    /\ Len(childShifts) = 2
    /\ childShifts[1].id = 2
    /\ childShifts[1].employee_id = childShifts[2].employee_id
    /\ childShifts[1].end_time # childShifts[2].end_time
    /\ childShifts[1].date = currentPeriod.start_date + 7
    /\ childShifts[2].date = currentPeriod.start_date

\* the sum of the lengths of the shifts, in minutes
RECURSIVE MinutesOf(_)
MinutesOf(shifts) ==
    IF shifts = <<>> THEN 0
    ELSE EndMinuteOf(Head(shifts).end_time) - MinuteOf(Head(shifts).start_time)
             + MinutesOf(Tail(shifts))

\* C12: for every shift with whole-minute times and start < end (23:59:59
\* counted as 24:00) the hours the aggregator adds,
\* parseHours(calculateShiftHours(start, end)), are (end - start in
\* minutes) / 60 whichever string form is produced; so the total shown is
\* the sum of the minutes over 60, to two decimals.
C12_HoursAreMinutesOver60 ==
    summary # NULL =>
        /\ \A i \in 1..Len(childShifts) :
               parseHours(calculateShiftHours(childShifts[i].start_time,
                                              childShifts[i].end_time))
                   = EndMinuteOf(childShifts[i].end_time)
                         - MinuteOf(childShifts[i].start_time)
        /\ summary.totalHours = toFixed2(MinutesOf(childShifts))

\* a summary was rendered from a shift of the form "H:MM" and one ending
\* at the sentinel
C12_Witness ==
    /\ summary # NULL
    /\ Len(childShifts) = 2
    /\ calculateShiftHours(childShifts[1].start_time,
                           childShifts[1].end_time) = <<4, ":", <<4, 5>>>>
    /\ childShifts[2].end_time = T(23,59,59)

(***************************************************************************)
(* getExclusionsForDate.  An exclusion is scoped to an employee, to a      *)
(* child or to nobody (general), as the exclusion form saves it; an absent *)
(* employee_id or child_id is 0 and an absent time is NULL.                *)
(***************************************************************************)
NoEmployee == 0

\* longest list of exclusions drawn for one period
MaxExclusions == 2

\* the (employee_id, child_id) of a general, an employee's and a child's
\* exclusion
ExclusionScopes ==
    {<<NoEmployee, NoChild>>} \cup {<<e, NoChild>> : e \in {1}}
        \cup {<<NoEmployee, c>> : c \in ChildIds}

ExclusionTimes == { <<T(9,0,0), T(17,0,0)>>, <<NULL, NULL>> }

\* spans of one, two and three days from the first days of the period
ExclusionSpans(period) ==
    LET s == period.start_date
    IN  {<<s, s>>, <<s, s + 1>>, <<s, s + 2>>, <<s + 1, s + 2>>}

MkExclusion(i, span, times, scope) ==
    [id |-> i, start_date |-> span[1], end_date |-> span[2],
     start_time |-> times[1], end_time |-> times[2],
     employee_id |-> scope[1], child_id |-> scope[2]]

\* a response of GET /api/payroll/exclusions/for-period
ExclusionLists(n, period) ==
    { [i \in 1..n |-> MkExclusion(i, f[i][1], f[i][2], f[i][3])] :
          f \in [1..n -> ExclusionSpans(period) \X ExclusionTimes
                                                \X ExclusionScopes] }

\* the days of the calendar the exclusions are asked for
CalendarDates(period) == period.start_date .. period.start_date + 3

\* variant: the time dropped on the first and on the last day are swapped
adjustedExclusion_Swapped(exclusion, date) ==
    LET isFirstDay == date = exclusion.start_date
        isLastDay == date = exclusion.end_date
    IN  IF isFirstDay /\ isLastDay THEN exclusion
        ELSE IF isFirstDay THEN [exclusion EXCEPT !.start_time = NULL]
        ELSE IF isLastDay THEN [exclusion EXCEPT !.end_time = NULL]
        ELSE [exclusion EXCEPT !.start_time = NULL, !.end_time = NULL]

\* the callback of map
adjustedExclusion(exclusion, date) ==
    LET isFirstDay == date = exclusion.start_date
        isLastDay == date = exclusion.end_date
    IN  IF isFirstDay /\ isLastDay THEN exclusion
        ELSE IF isFirstDay THEN [exclusion EXCEPT !.end_time = NULL]
        ELSE IF isLastDay THEN [exclusion EXCEPT !.start_time = NULL]
        ELSE [exclusion EXCEPT !.start_time = NULL, !.end_time = NULL]

\* variant: the selected child is not looked at
getExclusionsForDate_AnyChild(exclusions, childId, date) ==
    LET kept == SelectSeq(exclusions,
                    LAMBDA exclusion :
                        date >= exclusion.start_date /\ date <= exclusion.end_date)
    IN  [k \in 1..Len(kept) |-> adjustedExclusion(kept[k], date)]

getExclusionsForDate(exclusions, childId, date) ==
    LET kept == SelectSeq(exclusions,
                    LAMBDA exclusion :
                        IF date >= exclusion.start_date /\ date <= exclusion.end_date
                        THEN IF exclusion.child_id # NoChild
                             THEN exclusion.child_id = childId
                             ELSE TRUE
                        ELSE FALSE)
    IN  [k \in 1..Len(kept) |-> adjustedExclusion(kept[k], date)]

(***************************************************************************)
(* Specification SpecExclusions: a period is current, a child is selected  *)
(* and the period's exclusions have arrived; renderCalendar asks for the   *)
(* exclusions of a day; the child filter is changed.                       *)
(***************************************************************************)
InitExclusions ==
    /\ today = CHOOSE d \in Todays : \A e \in Todays : d <= e
    /\ serverPeriods = GeneratePeriods(today, today, 1)
    /\ nextPeriodId = HorizonPeriods + 1
    /\ configures = 0
    /\ periods = serverPeriods
    /\ currentPeriod = serverPeriods[1]
    /\ currentView = "dashboard"
    /\ selectedChildId \in ChildIds
    /\ periodLabel = loadDashboardLabel(currentPeriod, selectedChildId,
                                        [text |-> ""])
    /\ toast = ""
    /\ inflight = {}
    /\ lastNav = NULL
    /\ trail = <<>>
    /\ \E n \in 0..MaxExclusions :
           currentExclusions \in ExclusionLists(n, currentPeriod)
    /\ dateStr = 0
    /\ dayExclusions = <<>>
    /\ storedShifts = <<>>
    /\ modal = NULL
    /\ managerOverlaps = <<>>
    /\ OverlapIdle
    /\ ViewIdle
    /\ DetectIdle
    /\ SummaryIdle

GetExclusionsForDate ==
    /\ \E date \in CalendarDates(currentPeriod) :
           /\ dateStr' = date
           /\ dayExclusions' = getExclusionsForDate(currentExclusions,
                                                    selectedChildId, date)
    /\ UNCHANGED <<currentExclusions, exceptExclusion>>

\* the change handler of #child-filter; loadDashboard stores the period's
\* exclusions again and the calendar is rendered anew
ChangeChildFilter ==
    /\ \E c \in ChildIds \ {selectedChildId} : selectedChildId' = c
    /\ dateStr' = 0
    /\ dayExclusions' = <<>>
    /\ lastNav' = NULL
    /\ UNCHANGED <<currentExclusions, serverVars, periods, currentPeriod,
                   currentView, periodLabel, toast, inflight, trail,
                   overlapVars, detectVars, summaryVars, shiftVars,
                   viewVars, pageVars>>

NextExclusions == GetExclusionsForDate \/ ChangeChildFilter

SpecExclusions == InitExclusions /\ [][NextExclusions]_vars

(***************************************************************************)
(* Claims about getExclusionsForDate (checked under SpecExclusions).       *)
(***************************************************************************)
\* the stored exclusions whose span contains the day asked for
Covering ==
    { i \in 1..Len(currentExclusions) :
          /\ currentExclusions[i].start_date <= dateStr
          /\ dateStr <= currentExclusions[i].end_date }

\* C13: getExclusionsForDate(date) returns exactly the stored exclusions
\* with start_date <= date <= end_date, minus the child-scoped ones of a
\* child other than the selected one; general and employee-scoped
\* exclusions covering the date are always returned.
C13_ExactlyCovering ==
    dateStr # 0 =>
        LET expected ==
                { i \in Covering :
                      ~ (/\ currentExclusions[i].child_id # NoChild
                         /\ currentExclusions[i].child_id # selectedChildId) }
            returned == { dayExclusions[k].id : k \in 1..Len(dayExclusions) }
        IN  /\ returned = { currentExclusions[i].id : i \in expected }
            /\ Len(dayExclusions) = Cardinality(expected)
            /\ \A i \in Covering :
                   currentExclusions[i].child_id = NoChild
                       => currentExclusions[i].id \in returned

\* of a general exclusion and one of the other child, both covering the
\* day, the general one alone is returned
C13_Witness ==
    /\ dateStr # 0
    /\ Len(currentExclusions) = 2
    /\ Covering = {1, 2}
    /\ currentExclusions[1].employee_id = NoEmployee
    /\ currentExclusions[1].child_id = NoChild
    /\ currentExclusions[2].child_id \notin {NoChild, selectedChildId}
    /\ Len(dayExclusions) = 1
    /\ dayExclusions[1].id = 1

\* C14: for every exclusion returned for a date: on the first day of a
\* multi-day span start_time is kept and end_time dropped, on the last day
\* start_time is dropped and end_time kept, on a middle day both are
\* dropped, and for a single-day span both are kept as given.
C14_EffectiveWindow ==
    dateStr # 0 =>
        \A k \in 1..Len(dayExclusions) :
            LET got == dayExclusions[k]
                stored == currentExclusions[got.id]
                first == dateStr = stored.start_date
                last == dateStr = stored.end_date
            IN  /\ (first /\ last) =>
                       /\ got.start_time = stored.start_time
                       /\ got.end_time = stored.end_time
                /\ (first /\ ~last) =>
                       got.start_time = stored.start_time /\ got.end_time = NULL
                /\ (~first /\ last) =>
                       got.start_time = NULL /\ got.end_time = stored.end_time
                /\ (~first /\ ~last) =>
                       got.start_time = NULL /\ got.end_time = NULL

\* the day asked for is the last day of one timed exclusion and the first
\* day of another
C14_Witness ==
    /\ dateStr # 0
    /\ Len(dayExclusions) = 2
    /\ currentExclusions[1].end_date = dateStr
    /\ currentExclusions[1].start_date < dateStr
    /\ currentExclusions[2].start_date = dateStr
    /\ currentExclusions[2].end_date > dateStr
    /\ currentExclusions[1].start_time # NULL
    /\ currentExclusions[2].end_time # NULL
    /\ dayExclusions[1].start_time = NULL
    /\ dayExclusions[2].end_time = NULL

(***************************************************************************)
(* Specification SpecDashboardDetect: the dashboard of a period and child  *)
(* has received its three responses; the exclusions are stored and         *)
(* detectAndDisplayOverlaps runs on the shifts of the period.              *)
(***************************************************************************)
\* longest list of shifts drawn for the dashboard
MaxDashboardShifts == 2

DashboardExclusionLists(period) ==
    { <<>>,
      <<MkExclusion(1, <<period.start_date, period.start_date + 1>>,
                    <<T(9,0,0), T(17,0,0)>>, <<NoEmployee, 1>>)>> }

InitDashboardDetect ==
    /\ today = CHOOSE d \in Todays : \A e \in Todays : d <= e
    /\ serverPeriods = GeneratePeriods(today, today, 1)
    /\ nextPeriodId = HorizonPeriods + 1
    /\ configures = 0
    /\ periods = serverPeriods
    /\ currentPeriod = serverPeriods[1]
    /\ currentView = "dashboard"
    /\ selectedChildId \in ChildIds
    /\ periodLabel = loadDashboardLabel(currentPeriod, selectedChildId,
                                        [text |-> ""])
    /\ toast = ""
    /\ inflight = {}
    /\ lastNav = NULL
    /\ trail = <<>>
    /\ currentExclusions \in DashboardExclusionLists(currentPeriod)
    /\ dateStr = 0
    /\ dayExclusions = <<>>
    /\ storedShifts = <<>>
    /\ modal = NULL
    /\ managerOverlaps = <<>>
    /\ \E n \in 0..MaxDashboardShifts : allShifts \in ShiftLists(n)
    /\ overlaps = <<>>
    /\ rendered = FALSE
    /\ OverlapIdle
    /\ ViewIdle
    /\ SummaryIdle

NextDashboardDetect == DetectAndDisplayOverlaps

SpecDashboardDetect == InitDashboardDetect /\ [][NextDashboardDetect]_vars

(***************************************************************************)
(* Claims about the effects of detection (checked under                    *)
(* SpecDashboardDetect).                                                   *)
(***************************************************************************)
\* C15: detectAndDisplayOverlaps leaves the shifts it is given and the
\* application state (currentPeriod, periods, selectedChildId,
\* currentExclusions) unchanged and sends no request: no shift is removed
\* or altered by detection.
C15_DetectionReadOnly ==
    [][ (~rendered /\ rendered') =>
            /\ allShifts' = allShifts
            /\ currentPeriod' = currentPeriod
            /\ periods' = periods
            /\ selectedChildId' = selectedChildId
            /\ currentExclusions' = currentExclusions
            /\ inflight' = inflight ]_vars

\* detection has run and displayed a conflict while a period is current
\* and an exclusion is stored
C15_Witness ==
    /\ rendered
    /\ overlaps # <<>>
    /\ Len(allShifts) = 2
    /\ currentPeriod # NULL
    /\ currentExclusions # <<>>

(***************************************************************************)
(* Editing and deleting shifts: the details modal of the dashboard         *)
(* (showShiftDetails, editShift, deleteShift) and the overlaps view        *)
(* (OverlapsManager).  The shifts API is outside the front end: it holds   *)
(* the shifts, lists the conflicts among all of them and answers a DELETE  *)
(* or PUT for an id it holds.                                              *)
(***************************************************************************)
\* a row of GET /api/shifts with its is_imported column
WithSource(shift, imported) ==
    [f \in DOMAIN shift \cup {"is_imported"} |->
        IF f = "is_imported" THEN imported ELSE shift[f]]

ManagedShiftData == EmployeeIds \X ChildIds \X ListRanges \X BOOLEAN

\* the shifts held for one date: manual and imported ones
ManagedShiftLists(n) ==
    { [i \in 1..n |-> WithSource(MkShift(i, f[i][1], f[i][2], 1, f[i][3]),
                                  f[i][4])] :
          f \in [1..n -> ManagedShiftData] }

\* the response of GET /api/shifts/overlaps: one row per conflict among all
\* the shifts held
ServerOverlaps(shifts) ==
    LET found == detectAndDisplayOverlaps(shifts)
    IN  [k \in 1..Len(found) |->
            [shift1_id |-> found[k].shift1.id,
             shift2_id |-> found[k].shift2.id,
             overlap_type |-> found[k].type]]

Holds(shifts, id) == \E i \in 1..Len(shifts) : shifts[i].id = id

\* the page size 'all'
All == 0

\* Array.prototype.slice(start, end) with 0 <= start and end <= length
slice(list, start, end) ==
    [i \in 1..Max(0, end - start) |-> list[start + i]]

\* Math.ceil(total / size) for a size that is a number
totalPagesOf(total, size) == (total + size - 1) \div size

\* OverlapsManager.renderOverlaps and updatePaginationControls: the rows of
\* the page and the state of the controls
managerRenderOverlaps(list, page, size, total) ==
    LET startIndex == IF size = All THEN 0 ELSE (page - 1) * size
        endIndex == IF size = All THEN Len(list)
                    ELSE Min(startIndex + size, Len(list))
    IN  [rows |-> IF Len(list) = 0 THEN <<>>
                  ELSE slice(list, startIndex, endIndex),
         noData |-> Len(list) = 0,
         prevDisabled |-> size = All \/ page <= 1,
         nextDisabled |-> size = All \/ page >= totalPagesOf(total, size),
         pageInfo |-> IF size = All THEN [all |-> total]
                      ELSE [page |-> page, of |-> totalPagesOf(total, size)]]

\* OverlapsManager.loadOverlaps after its fetch: the list is stored, counted
\* and rendered; the page is left as it is
StoreOverlaps(list) ==
    /\ managerOverlaps' = list
    /\ totalOverlaps' = Len(list)
    /\ overlapsView' = managerRenderOverlaps(list, currentPage, pageSize,
                                             Len(list))
    /\ UNCHANGED <<currentPage, pageSize>>

ShiftRequest(method, id, cont) ==
    [req |-> method, then |-> cont, id |-> id]

\* the fields of the App these operations leave alone
appRest == <<periods, currentPeriod, currentView, selectedChildId,
             periodLabel, lastNav, trail>>

InitShifts ==
    /\ \E n \in 0..MaxDashboardShifts : storedShifts \in ManagedShiftLists(n)
    /\ modal = NULL
    /\ managerOverlaps = <<>>
    /\ currentExclusions = <<>> /\ dateStr = 0 /\ dayExclusions = <<>>
    /\ OverlapIdle
    /\ ViewIdle
    /\ DetectIdle
    /\ NavIdle
    /\ SummaryIdle

\* a click on a shift of the calendar: the modal offers Edit and Delete for
\* a manual shift only
OpenShiftDetails ==
    /\ \E i \in 1..Len(storedShifts) :
           modal' = [shift |-> storedShifts[i],
                     actions |-> ~ storedShifts[i].is_imported]
    /\ UNCHANGED <<storedShifts, managerOverlaps, pageVars, toast, inflight,
                   appRest, exceptShift>>

CloseModal ==
    /\ modal # NULL
    /\ modal' = NULL
    /\ UNCHANGED <<storedShifts, managerOverlaps, pageVars, toast, inflight,
                   appRest, exceptShift>>

\* the Delete Shift button of the modal, confirmed
DeleteShift ==
    /\ modal # NULL
    /\ modal.actions
    /\ inflight' = inflight \cup
           {ShiftRequest("DELETE /api/shifts/id", modal.shift.id, "dashboard")}
    /\ UNCHANGED <<storedShifts, modal, managerOverlaps, pageVars, toast,
                   appRest, exceptShift>>

\* the Edit Shift button of the modal and the submit of the edit form
EditShift ==
    /\ modal # NULL
    /\ modal.actions
    /\ inflight' = inflight \cup
           {ShiftRequest("PUT /api/shifts/id", modal.shift.id, "dashboard")}
    /\ UNCHANGED <<storedShifts, modal, managerOverlaps, pageVars, toast,
                   appRest, exceptShift>>

\* App.prototype.loadOverlaps: the overlaps view is opened or reloaded
LoadOverlaps ==
    /\ StoreOverlaps(ServerOverlaps(storedShifts))
    /\ UNCHANGED <<storedShifts, modal, toast, inflight, appRest, exceptShift>>

\* what prompt() can return: an option, other text, or null when cancelled
Resolutions == {"1", "2", "3", "4", "null"}

\* variant: the second option removes both shifts
ResolveOverlap_Both(k, confirmed, resolution) ==
    /\ overlapsView # NULL
    /\ k \in 1..Len(overlapsView.rows)
    /\ IF ~ confirmed
       THEN UNCHANGED <<inflight, managerOverlaps, pageVars>>
       ELSE IF resolution = "1"
       THEN /\ inflight' = inflight \cup
                   {ShiftRequest("DELETE /api/shifts/id",
                                 overlapsView.rows[k].shift1_id, "overlaps")}
            /\ UNCHANGED <<managerOverlaps, pageVars>>
       ELSE IF resolution = "2"
       THEN /\ inflight' = inflight \cup
                   {ShiftRequest("DELETE /api/shifts/id",
                                 overlapsView.rows[k].shift1_id, "overlaps"),
                    ShiftRequest("DELETE /api/shifts/id",
                                 overlapsView.rows[k].shift2_id, "overlaps")}
            /\ UNCHANGED <<managerOverlaps, pageVars>>
       ELSE /\ StoreOverlaps(ServerOverlaps(storedShifts))
            /\ UNCHANGED inflight
    /\ UNCHANGED <<storedShifts, modal, toast, appRest, exceptShift>>

\* the Resolve button of a row shown, the answer to confirm() and the answer
\* to prompt(): without confirmation the call returns; option 1 or 2 sends
\* one DELETE, whose answer is followed by loadOverlaps; every other answer
\* goes to loadOverlaps at once
ResolveOverlap(k, confirmed, resolution) ==
    /\ overlapsView # NULL
    /\ k \in 1..Len(overlapsView.rows)
    /\ IF ~ confirmed
       THEN UNCHANGED <<inflight, managerOverlaps, pageVars>>
       ELSE IF resolution = "1"
       THEN /\ inflight' = inflight \cup
                   {ShiftRequest("DELETE /api/shifts/id",
                                 overlapsView.rows[k].shift1_id, "overlaps")}
            /\ UNCHANGED <<managerOverlaps, pageVars>>
       ELSE IF resolution = "2"
       THEN /\ inflight' = inflight \cup
                   {ShiftRequest("DELETE /api/shifts/id",
                                 overlapsView.rows[k].shift2_id, "overlaps")}
            /\ UNCHANGED <<managerOverlaps, pageVars>>
       ELSE /\ StoreOverlaps(ServerOverlaps(storedShifts))
            /\ UNCHANGED inflight
    /\ UNCHANGED <<storedShifts, modal, toast, appRest, exceptShift>>

\* the shifts API answers a DELETE or a PUT; the caller goes on
ShiftResponse(q) ==
    /\ q \in inflight
    /\ \E ok \in {Holds(storedShifts, q.id), FALSE} :
           /\ storedShifts' =
                  IF ok /\ q.req = "DELETE /api/shifts/id"
                  THEN SelectSeq(storedShifts, LAMBDA sh : sh.id # q.id)
                  ELSE storedShifts
           /\ IF q.then = "dashboard"
              THEN /\ toast' = IF ~ok THEN "error"
                               ELSE IF q.req = "DELETE /api/shifts/id"
                                    THEN "Shift deleted"
                                    ELSE "Shift updated successfully"
                   /\ modal' = IF ok THEN NULL ELSE modal
                   /\ UNCHANGED <<managerOverlaps, pageVars>>
              ELSE /\ StoreOverlaps(ServerOverlaps(storedShifts'))
                   /\ UNCHANGED <<toast, modal>>
    /\ inflight' = inflight \ {q}
    /\ UNCHANGED <<appRest, exceptShift>>

NextShifts ==
    \/ OpenShiftDetails
    \/ CloseModal
    \/ DeleteShift
    \/ EditShift
    \/ LoadOverlaps
    \/ \E k \in 1..MaxDashboardShifts, confirmed \in BOOLEAN,
          resolution \in Resolutions :
           ResolveOverlap(k, confirmed, resolution)
    \/ \E q \in inflight : ShiftResponse(q)

SpecShifts == InitShifts /\ [][NextShifts]_vars

(***************************************************************************)
(* Claims about editing and deleting shifts (checked under SpecShifts).    *)
(***************************************************************************)
IsImported(id) ==
    \E i \in 1..Len(storedShifts) :
        storedShifts[i].id = id /\ storedShifts[i].is_imported

\* C16: the front end never sends DELETE or PUT /api/shifts/{id} for a shift
\* whose is_imported is true, and the modal offers its actions for a manual
\* shift only.
C16_ImportedReadOnly ==
    /\ \A q \in inflight :
           q.req \in {"DELETE /api/shifts/id", "PUT /api/shifts/id"}
               => ~ IsImported(q.id)
    /\ (modal # NULL /\ modal.actions) => ~ modal.shift.is_imported

(***************************************************************************)
(* Specification SpecConfigure: the configure button is clicked while an   *)
(* earlier configure request may still be in flight.  The payroll service  *)
(* regenerates in two steps, deleting every row and then inserting the new *)
(* sequence; the steps of two requests can interleave.                     *)
(***************************************************************************)
\* clicks on #configure-periods in one run
MaxConfigureClicks == 2

\* the rows in start_date order, a new row after the rows of its date
RECURSIVE InsertPeriod(_, _)
InsertPeriod(list, p) ==
    IF list = <<>> THEN <<p>>
    ELSE IF p.start_date < Head(list).start_date THEN <<p>> \o list
    ELSE <<Head(list)>> \o InsertPeriod(Tail(list), p)

RECURSIVE InsertPeriods(_, _)
InsertPeriods(list, new) ==
    IF new = <<>> THEN list
    ELSE InsertPeriods(InsertPeriod(list, Head(new)), Tail(new))

\* first step of configure: every row of payroll_periods is deleted
ServerDeletePeriods(q) ==
    /\ q \in inflight /\ q.req = "configure"
    /\ serverPeriods' = <<>>
    /\ inflight' = (inflight \ {q}) \cup {[q EXCEPT !.req = "rebuild"]}
    /\ lastNav' = NULL
    /\ UNCHANGED <<today, nextPeriodId, configures, periods, currentPeriod,
                   currentView, selectedChildId, periodLabel, toast, trail,
                   exceptNav>>

\* second step: the regenerated rows are inserted and the POST is answered;
\* configurePeriods shows its toast and calls loadInitialData
ServerRebuildPeriods(q) ==
    /\ q \in inflight /\ q.req = "rebuild"
    /\ \E firstId \in (IF serverPeriods = <<>> THEN {1} ELSE {}) \cup {nextPeriodId} :
           /\ serverPeriods' =
                  InsertPeriods(serverPeriods,
                                GeneratePeriods(q.anchor, today, firstId))
           /\ nextPeriodId' = firstId + HorizonPeriods
    /\ configures' = configures + 1
    /\ toast' = "Payroll periods configured successfully"
    /\ inflight' = (inflight \ {q}) \cup {Request("initial", "configure")}
    /\ lastNav' = NULL
    /\ UNCHANGED <<today, periods, currentPeriod, currentView, selectedChildId,
                   periodLabel, trail, exceptNav>>

NextConfigure ==
    \/ \E a \in Anchors : ConfigurePeriodsWithin(a, MaxConfigureClicks)
    \/ \E q \in inflight : ServerDeletePeriods(q)
    \/ \E q \in inflight : ServerRebuildPeriods(q)
    \/ \E q \in inflight : LoadInitialDataResponse(q)
    \/ \E q \in inflight : LoadCurrentPeriodResponse(q)

SpecConfigure == InitNav /\ [][NextConfigure]_vars

(***************************************************************************)
(* Claims about configuring periods (checked under SpecConfigure).         *)
(***************************************************************************)
\* C17: App.configurePeriods never has two configure requests in flight at
\* the same time.
C17_SingleFlight == Cardinality(ConfiguresInFlight) <= 1

\* C18: when the current-period lookup fails (no sequence exists or no
\* period contains today) loadCurrentPeriod shows 'No periods configured',
\* starts no dashboard load and leaves currentPeriod as it was.
C18_NotConfigured ==
    [][ \A q \in inflight :
            (/\ q.req = "current"
             /\ q \notin inflight'
             /\ CurrentOf(serverPeriods, today) = NULL)
                => /\ periodLabel' = [text |-> "No periods configured"]
                   /\ currentPeriod' = currentPeriod
                   /\ inflight' \subseteq
                          inflight \cup {Request("current", "none")} ]_vars

\* a lookup has failed while a period was current: the message is shown
\* and the period is still the current one
C18_Witness ==
    /\ periodLabel = [text |-> "No periods configured"]
    /\ currentPeriod # NULL
    /\ CurrentOf(serverPeriods, today) = NULL

\* each period lasts 14 days and starts the day after the one before it
Gapless(list) ==
    \A k \in 1..Len(list) :
        /\ list[k].end_date = list[k].start_date + 13
        /\ k > 1 => list[k].start_date = list[k - 1].end_date + 1

\* C20: in every reachable state the payroll period sequence, as the
\* service holds it and as the App has loaded it, is gapless and
\* non-overlapping, after any number of configure calls with any anchors.
C20_SequenceGapless == Gapless(serverPeriods) /\ Gapless(periods)

(***************************************************************************)
(* Specification SpecInterval: the summary is rendered from shifts whose   *)
(* times the front end takes as they come: the shift forms send start and  *)
(* end unchecked, and calculateShiftHours has a branch for an end before   *)
(* the start.                                                              *)
(***************************************************************************)
IntervalRanges == { <<T(9,0,0), T(13,30,0)>>, <<T(22,0,0), T(23,59,59)>>,
                    <<T(13,0,0), T(13,0,0)>>, <<T(22,0,0), T(2,0,0)>> }

IntervalShiftLists(n, period, childId) ==
    { [i \in 1..n |-> MkShift(i, f[i][1], childId, f[i][2], f[i][3])] :
          f \in [1..n -> EmployeeIds \X AggregateDates(period)
                                     \X IntervalRanges] }

InitInterval ==
    /\ today = CHOOSE d \in Todays : \A e \in Todays : d <= e
    /\ serverPeriods = GeneratePeriods(today, today, 1)
    /\ nextPeriodId = HorizonPeriods + 1
    /\ configures = 0
    /\ periods = serverPeriods
    /\ currentPeriod = serverPeriods[1]
    /\ currentView = "dashboard"
    /\ selectedChildId = 1
    /\ periodLabel = loadDashboardLabel(currentPeriod, selectedChildId,
                                        [text |-> ""])
    /\ toast = ""
    /\ inflight = {}
    /\ lastNav = NULL
    /\ trail = <<>>
    /\ timeZone \in TimeZones
    /\ hourLimits = {}
    /\ \E n \in 0..MaxSummaryShifts :
           childShifts \in IntervalShiftLists(n, currentPeriod, selectedChildId)
    /\ summary = NULL
    /\ OverlapIdle
    /\ ViewIdle
    /\ DetectIdle
    /\ ExclusionIdle

NextInterval == RenderChildSummaryFromShifts

SpecInterval == InitInterval /\ [][NextInterval]_vars

(***************************************************************************)
(* Claims about invalid intervals (checked under SpecInterval).            *)
(***************************************************************************)
\* the end is not after the start, 23:59:59 read as 24:00
InvalidInterval(shift) ==
    EndMinuteOf(shift.end_time) <= MinuteOf(shift.start_time)

\* C19: a shift whose end time is not after its start time (after the
\* 23:59:59 -> 24:00 normalization) is never given a positive duration and
\* contributes no hours to any total: the totals shown are those of the
\* other shifts.
C19_InvalidIntervalNoHours ==
    summary # NULL =>
        LET valid == SelectSeq(childShifts, LAMBDA sh : ~ InvalidInterval(sh))
        IN  /\ \A i \in 1..Len(childShifts) :
                   InvalidInterval(childShifts[i]) =>
                       parseHours(calculateShiftHours(childShifts[i].start_time,
                                                      childShifts[i].end_time)) = 0
            /\ summary.totalHours = toFixed2(MinutesOf(valid))
            /\ \A k \in 1..Len(summary.employeeBreakdown) :
                   LET row == summary.employeeBreakdown[k]
                   IN  row.total =
                           toFixed2(HoursBetween(valid, row.name,
                                                 currentPeriod.start_date,
                                                 currentPeriod.end_date))

(***************************************************************************)
(* The forecast view: loadAvailableHours.  The forecast service that       *)
(* answers /api/forecast/available-hours/batch is modelled from its        *)
(* specification.  A JSON number that is a quotient is kept exact, as the  *)
(* record [num, den] with den > 0.                                         *)
(***************************************************************************)
Rat(n, d) == [num |-> n, den |-> d]

\* budgeted hours of a child in the range (0: no budget overlaps it) and the
\* hours of its shifts in the range
BudgetHours == {0, 100}
UsedHours == {0, 80, 120}

\* the children the service knows, each with its budget and its use
ChildBudgetLists ==
    UNION { [1..n -> [budget_hours : BudgetHours, used_hours : UsedHours]] :
                n \in 0..Cardinality(ChildIds) }

\* availableHours of child c: the fields the cards read that depend on the
\* budget and the use alone
availableHours(c, b) ==
    [child_name |-> ChildName(c),
     budget_hours |-> b.budget_hours,
     used_hours |-> b.used_hours,
     available_hours |-> b.budget_hours - b.used_hours,
     utilization_percent |->
         IF b.budget_hours = 0 THEN Rat(0, 1)
         ELSE Rat(b.used_hours * 100, b.budget_hours)]

\* the object without its utilization_percent field
WithoutUtilization(child) ==
    [f \in DOMAIN child \ {"utilization_percent"} |-> child[f]]

\* the batch answer: every child, some of them without the field
BatchResponses(budgets) ==
    { [k \in 1..Len(budgets) |->
           IF k \in omitted
           THEN WithoutUtilization(availableHours(k, budgets[k]))
           ELSE availableHours(k, budgets[k])] :
          omitted \in SUBSET (1..Len(budgets)) }

\* child.utilization_percent || 0
utilizationOrZero(child) ==
    IF "utilization_percent" \in DOMAIN child
           /\ child.utilization_percent.num # 0
    THEN child.utilization_percent
    ELSE Rat(0, 1)

\* variant: the width is the percentage itself
utilizationWidth_Unclamped(child) == utilizationOrZero(child)

\* Math.min(child.utilization_percent || 0, 100)
utilizationWidth(child) ==
    LET u == utilizationOrZero(child)
    IN  IF u.num < 100 * u.den THEN u ELSE Rat(100, 1)

\* a missing utilization_percent compares false with every number
utilizationClass(child) ==
    IF "utilization_percent" \notin DOMAIN child THEN "low"
    ELSE LET u == child.utilization_percent
         IN  IF u.num > 90 * u.den THEN "high"
             ELSE IF u.num > 70 * u.den THEN "medium" ELSE "low"

\* (x).toFixed(1) of a number that is not negative, in tenths
toFixed1(u) == (u.num * 20 + u.den) \div (2 * u.den)

hoursCard(child) ==
    [child_name |-> child.child_name,
     utilizationClass |-> utilizationClass(child),
     noData |-> child.budget_hours = 0,
     width |-> utilizationWidth(child),
     text |-> toFixed1(utilizationOrZero(child))]

\* the fields of the App the forecast view leaves alone
forecastRest == <<serverVars, periods, currentPeriod, currentView,
                  selectedChildId, periodLabel, toast, lastNav, trail>>
exceptForecast == <<overlapVars, detectVars, summaryVars, exclusionVars,
                    shiftVars, calendar, pageVars, csvVars, tableVars>>

InitAvailableHours ==
    /\ childBudgets \in ChildBudgetLists
    /\ hoursCards = [text |-> ""]
    /\ history = <<>> /\ projectionDisplay = [text |-> ""]
    /\ calendar = NULL
    /\ PageIdle
    /\ CsvIdle /\ TableIdle
    /\ OverlapIdle
    /\ DetectIdle
    /\ NavIdle
    /\ SummaryIdle
    /\ ExclusionIdle

\* loadAvailableHours up to its await: with no date range it only says so
LoadAvailableHours(hasRange) ==
    /\ IF hasRange
       THEN /\ inflight' = inflight \cup {Request("available-hours", "none")}
            /\ UNCHANGED hoursCards
       ELSE /\ hoursCards' = [text |-> "Please select a date range"]
            /\ UNCHANGED inflight
    /\ UNCHANGED <<childBudgets, history, projectionDisplay, forecastRest,
                   exceptForecast>>

\* loadAvailableHours after its await: the cards are rendered
LoadAvailableHoursResponse(q) ==
    /\ q \in inflight /\ q.req = "available-hours"
    /\ \E children \in BatchResponses(childBudgets) :
           hoursCards' =
               IF Len(children) = 0
               THEN [text |-> "No budget data available for this period"]
               ELSE [children |-> children,
                     cards |-> [k \in 1..Len(children) |-> hoursCard(children[k])]]
    /\ inflight' = inflight \ {q}
    /\ UNCHANGED <<childBudgets, history, projectionDisplay, forecastRest,
                   exceptForecast>>

\* the request fails: the catch block
LoadAvailableHoursFailed(q) ==
    /\ q \in inflight /\ q.req = "available-hours"
    /\ hoursCards' = [text |-> "Failed to load available hours"]
    /\ inflight' = inflight \ {q}
    /\ UNCHANGED <<childBudgets, history, projectionDisplay, forecastRest,
                   exceptForecast>>

NextAvailableHours ==
    \/ \E hasRange \in BOOLEAN : LoadAvailableHours(hasRange)
    \/ \E q \in inflight : LoadAvailableHoursResponse(q)
    \/ \E q \in inflight : LoadAvailableHoursFailed(q)

SpecAvailableHours == InitAvailableHours /\ [][NextAvailableHours]_vars

(***************************************************************************)
(* Claims about utilization (checked under SpecAvailableHours).            *)
(***************************************************************************)
CardsShown == "cards" \in DOMAIN hoursCards

MaxHistory == 2

\* the hours a child had in one past week
WeeklyHours == {8, 20}

\* the history of every child: the hours of each of its past weeks
Histories ==
    [ChildIds -> UNION { [1..n -> WeeklyHours] : n \in 0..MaxHistory }]

\* the value of #projection-days
ProjectionDays == {14}

\* the labels of the service, and a label the front end does not know
ConfidenceLabels == {"low", "medium", "high"}
Confidences == ConfidenceLabels \cup {"unknown"}

RECURSIVE SumHours(_)
SumHours(weeks) ==
    IF weeks = <<>> THEN 0 ELSE Head(weeks) + SumHours(Tail(weeks))

\* project(childId, projectionDays): the weekly average of the history,
\* scaled linearly; with no history nothing is divided and the label is low.
\* The thresholds of the other labels are a policy of the service: label is
\* what it answers for a history that is not empty.
project(weeks, days, label, budget) ==
    LET projected == IF weeks = <<>> THEN Rat(0, 1)
                     ELSE Rat(SumHours(weeks) * days, 7 * Len(weeks))
    IN  [projection_days |-> days,
         projected_hours |-> projected,
         weekly_projection |-> IF weeks = <<>> THEN Rat(0, 1)
                               ELSE Rat(SumHours(weeks), Len(weeks)),
         confidence |-> IF weeks = <<>> THEN "low" ELSE label,
         based_on |-> Len(weeks),
         budget_comparison |->
             IF budget = 0 THEN NULL
             ELSE [current_budget |-> Rat(budget, 1),
                   projected_need |-> projected,
                   variance |-> Rat(budget * projected.den - projected.num,
                                    projected.den),
                   sufficient |-> budget * projected.den >= projected.num]]

\* variant: every label but 'high' is shown as medium
confidenceClass_Medium(confidence) ==
    IF confidence = "high" THEN "confidence-high" ELSE "confidence-medium"

confidenceClass(confidence) ==
    IF confidence = "high" THEN "confidence-high"
    ELSE IF confidence = "medium" THEN "confidence-medium"
    ELSE "confidence-low"

toUpperCase(str) ==
    CASE str = "low" -> "LOW"
      [] str = "medium" -> "MEDIUM"
      [] str = "high" -> "HIGH"
      [] str = "unknown" -> "UNKNOWN"

\* (x).toFixed(2), in hundredths
ratToFixed2(u) ==
    IF u.num >= 0 THEN (u.num * 200 + u.den) \div (2 * u.den)
    ELSE -(((-u.num) * 200 + u.den) \div (2 * u.den))

\* what #projections-display shows for an answer
projectionResults(projection) ==
    [projection_days |-> projection.projection_days,
     projected_hours |-> projection.projected_hours,
     weekly_projection |-> projection.weekly_projection,
     confidenceClass |-> confidenceClass(projection.confidence),
     confidence |-> toUpperCase(projection.confidence),
     based_on |-> projection.based_on,
     budget_comparison |->
         IF projection.budget_comparison = NULL THEN NULL
         ELSE LET c == projection.budget_comparison
              IN  [current_budget |-> ratToFixed2(c.current_budget),
                   projected_need |-> ratToFixed2(c.projected_need),
                   varianceClass |-> IF c.variance.num < 0 THEN "negative"
                                     ELSE "positive",
                   variance |-> ratToFixed2(c.variance),
                   sufficient |-> IF c.sufficient THEN "YES" ELSE "NO"]]

InitProjection ==
    /\ history \in Histories
    /\ projectionDisplay = [text |-> ""]
    /\ childBudgets = <<>> /\ hoursCards = [text |-> ""]
    /\ calendar = NULL
    /\ PageIdle
    /\ CsvIdle /\ TableIdle
    /\ OverlapIdle
    /\ DetectIdle
    /\ NavIdle
    /\ SummaryIdle
    /\ ExclusionIdle

projectionRest == <<serverVars, periods, currentPeriod, currentView,
                    selectedChildId, periodLabel, lastNav, trail>>

\* generateProjection up to its await; #projection-child may be empty
GenerateProjection(childId, projectionDays) ==
    /\ IF childId = NoChild
       THEN /\ toast' = "Please select a child"
            /\ UNCHANGED inflight
       ELSE /\ inflight' = inflight \cup
                   {[req |-> "projections", then |-> "none",
                     child_id |-> childId, projection_days |-> projectionDays]}
            /\ UNCHANGED toast
    /\ UNCHANGED <<childBudgets, hoursCards, history, projectionDisplay,
                   projectionRest, exceptForecast>>

\* generateProjection after its await
GenerateProjectionResponse(q) ==
    /\ q \in inflight /\ q.req = "projections"
    /\ \E label \in Confidences, budget \in BudgetHours :
           LET projection == project(history[q.child_id], q.projection_days,
                                     label, budget)
           IN  projectionDisplay' =
                   [child_id |-> q.child_id, projection |-> projection,
                    results |-> projectionResults(projection)]
    /\ inflight' = inflight \ {q}
    /\ UNCHANGED <<childBudgets, hoursCards, history, toast, projectionRest,
                   exceptForecast>>

\* the request fails: the catch block
GenerateProjectionFailed(q) ==
    /\ q \in inflight /\ q.req = "projections"
    /\ toast' = "Failed to generate projection"
    /\ inflight' = inflight \ {q}
    /\ UNCHANGED <<childBudgets, hoursCards, history, projectionDisplay,
                   projectionRest, exceptForecast>>

NextProjection ==
    \/ \E c \in ChildIds \cup {NoChild}, d \in ProjectionDays :
           GenerateProjection(c, d)
    \/ \E q \in inflight : GenerateProjectionResponse(q)
    \/ \E q \in inflight : GenerateProjectionFailed(q)

SpecProjection == InitProjection /\ [][NextProjection]_vars

(***************************************************************************)
(* Claims about projections (checked under SpecProjection).                *)
(***************************************************************************)
ProjectionShown == "results" \in DOMAIN projectionDisplay

MaxDashboardLoads == 2

\* the shifts API holds one shift in each of the first two periods
RaceShiftLists(list) ==
    { <<MkShift(1, 1, c[1], list[1].start_date, <<T(9,0,0), T(13,0,0)>>),
        MkShift(2, 2, c[2], list[2].start_date, <<T(12,0,0), T(15,0,0)>>)>> :
          c \in ChildIds \X ChildIds }

\* GET /api/shifts?start_date&end_date[&child_id]
shiftsInRange(stored, q, childOnly) ==
    SelectSeq(stored,
              LAMBDA sh : /\ q.start_date <= sh.date /\ sh.date <= q.end_date
                          /\ (childOnly => sh.child_id = q.child_id))

\* sort((a, b) => a.start_time.localeCompare(b.start_time)), which is stable
RECURSIVE sortByStartTime(_)
sortByStartTime(shifts) ==
    IF shifts = <<>> THEN <<>>
    ELSE LET first == CHOOSE i \in 1..Len(shifts) :
                 \A j \in 1..Len(shifts) :
                     \/ Seconds(shifts[i].start_time) < Seconds(shifts[j].start_time)
                     \/ /\ Seconds(shifts[i].start_time) = Seconds(shifts[j].start_time)
                        /\ i <= j
             rest == [k \in 1..(Len(shifts) - 1) |->
                          IF k < first THEN shifts[k] ELSE shifts[k + 1]]
         IN  <<shifts[first]>> \o sortByStartTime(rest)

\* renderCalendar(period, shifts): a cell for every day of the period with
\* the shifts of that date
renderCalendar(period, shifts) ==
    [period |-> period,
     days |-> [d \in period.start_date..period.end_date |->
                  sortByStartTime(SelectSeq(shifts, LAMBDA sh : sh.date = d))]]

DashboardRequest(period, childId) ==
    [req |-> "dashboard", then |-> "none", start_date |-> period.start_date,
     end_date |-> period.end_date, child_id |-> childId]

DashboardLoads == {q \in inflight : q.req = "dashboard"}

\* the dashboard of the period containing today is being loaded for the
\* first child
InitRace ==
    /\ today = CHOOSE t \in Todays : \A u \in Todays : t <= u
    /\ serverPeriods = GeneratePeriods(today, today, 1)
    /\ nextPeriodId = HorizonPeriods + 1
    /\ configures = 0
    /\ periods = serverPeriods
    /\ currentPeriod = serverPeriods[1]
    /\ currentView = "dashboard"
    /\ selectedChildId = 1
    /\ periodLabel = loadDashboardLabel(currentPeriod, selectedChildId,
                                        [text |-> ""])
    /\ toast = ""
    /\ inflight = {DashboardRequest(currentPeriod, selectedChildId)}
    /\ lastNav = NULL
    /\ trail = <<>>
    /\ storedShifts \in RaceShiftLists(serverPeriods)
    /\ modal = NULL /\ managerOverlaps = <<>>
    /\ currentExclusions = <<>> /\ dateStr = 0 /\ dayExclusions = <<>>
    /\ childShifts = <<>> /\ timeZone = 0 /\ hourLimits = {}
    /\ summary = NULL
    /\ calendar = NULL
    /\ PageIdle
    /\ CsvIdle /\ TableIdle
    /\ ForecastIdle
    /\ OverlapIdle
    /\ DetectIdle

raceRest == <<overlapVars, serverVars, periods, currentView, toast, lastNav,
              trail, timeZone, hourLimits, dateStr, dayExclusions,
              storedShifts, modal, managerOverlaps, forecastVars, pageVars,
              csvVars, tableVars>>

\* navigatePeriod and the part of loadDashboard before its await
NavigateAndLoad(direction) ==
    LET r == navigatePeriod(direction, periods, currentPeriod)
    IN  /\ r.loadDashboard
        /\ Cardinality(DashboardLoads) < MaxDashboardLoads
        /\ currentPeriod' = r.currentPeriod
        /\ periodLabel' = loadDashboardLabel(r.currentPeriod, selectedChildId,
                                             periodLabel)
        /\ inflight' = inflight \cup
               {DashboardRequest(r.currentPeriod, selectedChildId)}
        /\ UNCHANGED <<selectedChildId, childShifts, summary, calendar,
                       currentExclusions, detectVars, raceRest>>

\* the change listener of #child-filter and the part of loadDashboard before
\* its await
ChangeChildAndLoad(childId) ==
    /\ Cardinality(DashboardLoads) < MaxDashboardLoads
    /\ selectedChildId' = childId
    /\ periodLabel' = loadDashboardLabel(currentPeriod, childId, periodLabel)
    /\ inflight' = inflight \cup {DashboardRequest(currentPeriod, childId)}
    /\ UNCHANGED <<currentPeriod, childShifts, summary, calendar,
                   currentExclusions, detectVars, raceRest>>

\* loadDashboard after its Promise.all: the answers to the requests it sent
\* are rendered with the period and the child that are current now
LoadDashboardResponse(q) ==
    /\ q \in DashboardLoads
    /\ childShifts' = shiftsInRange(storedShifts, q, TRUE)
    /\ allShifts' = shiftsInRange(storedShifts, q, FALSE)
    /\ currentExclusions' = <<>>
    /\ calendar' = renderCalendar(currentPeriod, childShifts')
    /\ summary' = renderChildSummaryFromShifts(childShifts', currentPeriod,
                                               timeZone)
    /\ overlaps' = detectAndDisplayOverlaps(allShifts')
    /\ rendered' = TRUE
    /\ inflight' = inflight \ {q}
    /\ UNCHANGED <<currentPeriod, selectedChildId, periodLabel, raceRest>>

NextRace ==
    \/ \E direction \in {-1, 1} : NavigateAndLoad(direction)
    \/ \E c \in ChildIds : ChangeChildAndLoad(c)
    \/ \E q \in inflight : LoadDashboardResponse(q)

SpecRace == InitRace /\ [][NextRace]_vars

(***************************************************************************)
(* Claims about concurrent dashboard loads (checked under SpecRace).       *)
(***************************************************************************)
\* the child's shifts of the current period
CurrentShifts ==
    shiftsInRange(storedShifts,
                  DashboardRequest(currentPeriod, selectedChildId), TRUE)

\* C23: once no dashboard request is in flight, the shifts shown in the
\* calendar and in the weekly summary are the ones fetched for the current
\* values of currentPeriod and selectedChildId.
C23_DisplayIsCurrent ==
    (DashboardLoads = {} /\ calendar # NULL) =>
        /\ childShifts = CurrentShifts
        /\ calendar = renderCalendar(currentPeriod, CurrentShifts)
        /\ summary = renderChildSummaryFromShifts(CurrentShifts, currentPeriod,
                                                  timeZone)

(***************************************************************************)
(* Claims about currentPeriod and periods (checked under SpecNav).         *)
(***************************************************************************)
\* C24: in every reachable state in which currentPeriod is not null and
\* periods has been loaded, currentPeriod.id is the id of an element of
\* periods, also after a reload of periods through loadInitialData while a
\* view other than the dashboard is active.
C24_CurrentPeriodListed ==
    (currentPeriod # NULL /\ periods # <<>>) =>
        findIndex(periods, currentPeriod.id) >= 0

(***************************************************************************)
(* The overlaps view: OverlapsManager with its pages.                      *)
(***************************************************************************)
\* shifts held by the shifts API when the overlaps view is opened
MaxPagedShifts == 7

\* the values of #overlaps-page-size
PageSizeOptions == {10, 25, All}

\* n manual shifts of one employee at the same time of one day, with the
\* two children in turn: every two shifts with different children conflict
PagedShifts(n) ==
    [i \in 1..n |->
        WithSource(MkShift(i, 1, 1 + (i % 2), 1, <<T(9,0,0), T(13,0,0)>>),
                   FALSE)]

InitPages ==
    /\ \E n \in 0..MaxPagedShifts : storedShifts = PagedShifts(n)
    /\ modal = NULL
    /\ managerOverlaps = <<>>
    /\ currentExclusions = <<>> /\ dateStr = 0 /\ dayExclusions = <<>>
    /\ PageIdle
    /\ ForecastIdle /\ calendar = NULL /\ CsvIdle /\ TableIdle
    /\ OverlapIdle
    /\ DetectIdle
    /\ NavIdle
    /\ SummaryIdle

pagesRest == <<storedShifts, modal, managerOverlaps, totalOverlaps, toast,
               inflight, appRest, exceptShift>>

\* a click on #overlaps-prev-page, which is not disabled
PreviousPage ==
    /\ overlapsView # NULL
    /\ ~ overlapsView.prevDisabled
    /\ IF currentPage > 1
       THEN /\ currentPage' = currentPage - 1
            /\ overlapsView' = managerRenderOverlaps(managerOverlaps, currentPage',
                                                     pageSize, totalOverlaps)
       ELSE UNCHANGED <<currentPage, overlapsView>>
    /\ UNCHANGED <<pageSize, pagesRest>>

\* a click on #overlaps-next-page, which is not disabled
NextPage ==
    /\ overlapsView # NULL
    /\ ~ overlapsView.nextDisabled
    /\ IF pageSize # All /\ currentPage < totalPagesOf(totalOverlaps, pageSize)
       THEN /\ currentPage' = currentPage + 1
            /\ overlapsView' = managerRenderOverlaps(managerOverlaps, currentPage',
                                                     pageSize, totalOverlaps)
       ELSE UNCHANGED <<currentPage, overlapsView>>
    /\ UNCHANGED <<pageSize, pagesRest>>

\* the change listener of #overlaps-page-size
ChangePageSize(size) ==
    /\ overlapsView # NULL
    /\ pageSize' = size
    /\ currentPage' = 1
    /\ overlapsView' = managerRenderOverlaps(managerOverlaps, 1, size,
                                             totalOverlaps)
    /\ UNCHANGED pagesRest

NextPages ==
    \/ LoadOverlaps
    \/ \E k \in 1..totalOverlaps, confirmed \in BOOLEAN,
          resolution \in Resolutions :
           ResolveOverlap(k, confirmed, resolution)
    \/ \E q \in inflight : ShiftResponse(q)
    \/ PreviousPage
    \/ NextPage
    \/ \E size \in PageSizeOptions : ChangePageSize(size)

SpecPages == InitPages /\ [][NextPages]_vars

(***************************************************************************)
(* Claims about the pages of the overlaps view (checked under SpecPages).  *)
(***************************************************************************)
LastPage ==
    IF pageSize = All THEN 1
    ELSE Max(1, totalPagesOf(totalOverlaps, pageSize))

\* C25: after any sequence of nextPage, previousPage, page-size changes and
\* loadOverlaps, the reload after a resolve included, currentPage stays
\* within 1..max(1, ceil(totalOverlaps / pageSize)), and a list that is not
\* empty never renders an empty page.
C25_PageInRange ==
    /\ currentPage \in 1..LastPage
    /\ (overlapsView # NULL /\ managerOverlaps # <<>>) =>
           overlapsView.rows # <<>>

(***************************************************************************)
(* The import view: validateCSV and importCSV.  A disabled button sends no *)
(* click.  The import service answers with a result, with an error object  *)
(* or not at all (the fetch is rejected).                                  *)
(***************************************************************************)
\* files that can be selected in #csv-file
MaxFiles == 2

Button(off) == [disabled |-> off]

\* what the service found: the outcome of the request and, for a result,
\* whether it is good and whether it warns of a changed header
CsvOutcomes ==
    [kind : {"result"}, good : BOOLEAN, headerChanged : BOOLEAN]
        \cup { [kind |-> "error"], [kind |-> "rejected"] }

CsvRequest(kind, files) == [req |-> kind, then |-> "none", files |-> files]

CsvInFlight == {q \in inflight : q.req \in {"validate", "import"}}

\* the controls while a request is awaited, and after the finally block
ControlsBusy(text) ==
    [importBtn |-> Button(TRUE), validateBtn |-> Button(TRUE),
     loading |-> "block", text |-> text]

ControlsFree(text) ==
    [importBtn |-> Button(FALSE), validateBtn |-> Button(FALSE),
     loading |-> "none", text |-> text]

HeaderWarning == "CSV header schema changed"

InitCsv ==
    /\ today = 0 /\ serverPeriods = <<>> /\ nextPeriodId = 1 /\ configures = 0
    /\ periods = <<>> /\ currentPeriod = NULL /\ currentView = "import"
    /\ selectedChildId = NoChild /\ periodLabel = [text |-> ""] /\ toast = ""
    /\ inflight = {} /\ lastNav = NULL /\ trail = <<>>
    /\ CsvIdle /\ TableIdle
    /\ ForecastIdle /\ calendar = NULL /\ PageIdle
    /\ OverlapIdle
    /\ DetectIdle
    /\ SummaryIdle
    /\ ExclusionIdle

exceptCsv == <<overlapVars, detectVars, summaryVars, exclusionVars, shiftVars,
               forecastVars, calendar, pageVars, tableVars>>
csvApp == <<serverVars, periods, currentPeriod, currentView, selectedChildId,
            periodLabel, lastNav, trail>>

\* the user picks files
SelectFiles(n) ==
    /\ csvFiles' = n
    /\ UNCHANGED <<importView, importResults, toast, inflight, csvApp,
                   exceptCsv>>

\* a click on #validate-csv: validateCSV up to its await
ValidateCSV ==
    /\ ~ importView.validateBtn.disabled
    /\ IF csvFiles = 0
       THEN /\ toast' = "Please select at least one file"
            /\ UNCHANGED <<importView, importResults, inflight>>
       ELSE /\ importView' =
                   ControlsBusy(IF csvFiles = 1
                                THEN "Validating CSV, please wait..."
                                ELSE "Validating file n of n")
            /\ importResults' = [text |-> ""]
            /\ inflight' = inflight \cup {CsvRequest("validate", csvFiles)}
            /\ UNCHANGED toast
    /\ UNCHANGED <<csvFiles, csvApp, exceptCsv>>

\* a click on #import-csv: importCSV up to its await
ImportCSV ==
    /\ ~ importView.importBtn.disabled
    /\ IF csvFiles = 0
       THEN /\ toast' = "Please select at least one file"
            /\ UNCHANGED <<importView, importResults, inflight>>
       ELSE /\ importView' =
                   ControlsBusy(IF csvFiles = 1
                                THEN "Import in progress, please wait..."
                                ELSE "Processing n files...")
            /\ importResults' = [text |-> ""]
            /\ inflight' = inflight \cup {CsvRequest("import", csvFiles)}
            /\ UNCHANGED toast
    /\ UNCHANGED <<csvFiles, csvApp, exceptCsv>>

\* variant: the buttons are enabled again at the end of the try block only
ValidateCSVResponse_NoFinally(q) ==
    /\ q \in inflight /\ q.req = "validate"
    /\ \E outcome \in CsvOutcomes :
           IF outcome.kind = "result"
           THEN /\ importResults' =
                       [heading |-> IF q.files = 1 THEN "Validation Results"
                                    ELSE "Batch Validation Results",
                        files |-> q.files,
                        valid |-> IF outcome.good THEN "Yes" ELSE "No"]
                /\ toast' = IF outcome.headerChanged THEN HeaderWarning
                            ELSE toast
                /\ importView' =
                       ControlsFree("Import in progress, please wait...")
           ELSE /\ toast' = "Validation failed"
                /\ UNCHANGED <<importResults, importView>>
    /\ inflight' = inflight \ {q}
    /\ UNCHANGED <<csvFiles, csvApp, exceptCsv>>

\* validateCSV after its await.  An error object has no errors list, so
\* result.errors.length throws; a rejected fetch throws; both reach the
\* catch block, and the finally block runs in every case.
ValidateCSVResponse(q) ==
    /\ q \in inflight /\ q.req = "validate"
    /\ \E outcome \in CsvOutcomes :
           IF outcome.kind = "result"
           THEN /\ importResults' =
                       [heading |-> IF q.files = 1 THEN "Validation Results"
                                    ELSE "Batch Validation Results",
                        files |-> q.files,
                        valid |-> IF outcome.good THEN "Yes" ELSE "No"]
                /\ toast' = IF outcome.headerChanged THEN HeaderWarning
                            ELSE toast
           ELSE /\ toast' = "Validation failed"
                /\ UNCHANGED importResults
    /\ importView' = ControlsFree("Import in progress, please wait...")
    /\ inflight' = inflight \ {q}
    /\ UNCHANGED <<csvFiles, csvApp, exceptCsv>>

\* importCSV after its await.  For one file the lists of the result are
\* guarded, so an error object is rendered with its fields undefined and
\* loadInitialData is called; for several files result.file_results.map
\* throws.  The finally block leaves the text of #import-loading as it is.
ImportCSVResponse(q) ==
    /\ q \in inflight /\ q.req = "import"
    /\ \E outcome \in CsvOutcomes :
           LET rendered_ == outcome.kind = "result"
                                \/ (outcome.kind = "error" /\ q.files = 1)
           IN  /\ IF rendered_
                  THEN /\ importResults' =
                              [heading |-> IF q.files = 1 THEN "Import Results"
                                           ELSE "Batch Import Results",
                               files |-> q.files,
                               imported |-> IF outcome.kind = "result"
                                            THEN "n" ELSE "undefined"]
                       /\ toast' = IF outcome.kind = "result"
                                       /\ outcome.headerChanged
                                   THEN HeaderWarning
                                   ELSE "Imported"
                  ELSE /\ toast' = "Import failed"
                       /\ UNCHANGED importResults
               /\ inflight' = (inflight \ {q}) \cup
                      (IF rendered_ THEN {Request("initial", "none")} ELSE {})
    /\ importView' = ControlsFree(importView.text)
    /\ UNCHANGED <<csvFiles, csvApp, exceptCsv>>

NextCsv ==
    \/ \E n \in 0..MaxFiles : SelectFiles(n)
    \/ ValidateCSV
    \/ ImportCSV
    \/ \E q \in inflight : ValidateCSVResponse(q)
    \/ \E q \in inflight : ImportCSVResponse(q)
    \/ \E q \in inflight : LoadInitialDataResponse(q)
    \/ \E q \in inflight : LoadInitialDataFailed(q)

\* every fetch is settled: it is answered or it is rejected
CsvFairness ==
    /\ WF_vars(\E q \in inflight : ValidateCSVResponse(q))
    /\ WF_vars(\E q \in inflight : ImportCSVResponse(q))

SpecCsv == InitCsv /\ [][NextCsv]_vars /\ CsvFairness

(***************************************************************************)
(* Claims about validateCSV and importCSV (checked under SpecCsv).         *)
(***************************************************************************)
ControlsDisabled ==
    /\ importView.importBtn.disabled
    /\ importView.validateBtn.disabled
    /\ importView.loading = "block"

ControlsEnabled ==
    /\ ~ importView.importBtn.disabled
    /\ ~ importView.validateBtn.disabled
    /\ importView.loading = "none"

\* C26: while a validation or an import is in flight both buttons are
\* disabled, so at most one runs at a time; every started operation
\* eventually ends, on success, server error or network failure alike, with
\* both buttons enabled and the loading indicator hidden; with no file
\* selected a click sends no request and disables nothing.
C26_OneImportAtATime ==
    /\ [](/\ Cardinality(CsvInFlight) <= 1
          /\ CsvInFlight # {} => ControlsDisabled
          /\ CsvInFlight = {} => ControlsEnabled)
    /\ [][(csvFiles = 0 /\ CsvInFlight = {})
              => (CsvInFlight' = {} /\ importView' = importView)]_vars
    /\ (ControlsDisabled ~> ControlsEnabled)

\* an import of two files is awaited with both buttons disabled
C26_Witness ==
    /\ \E q \in CsvInFlight : q.req = "import" /\ q.files = 2
    /\ ControlsDisabled

(***************************************************************************)
(* Specification SpecResolve: the overlaps view on a few conflicting       *)
(* shifts, with the Resolve button and every answer to its two dialogs.    *)
(***************************************************************************)
\* shifts held by the shifts API when a conflict is resolved
MaxResolveShifts == 3

\* conflicting shifts, each one manual or imported
ResolveShiftLists(n) ==
    { [i \in 1..n |-> WithSource(PagedShifts(n)[i], imported[i])] :
          imported \in [1..n -> BOOLEAN] }

InitResolve ==
    /\ \E n \in 0..MaxResolveShifts : storedShifts \in ResolveShiftLists(n)
    /\ modal = NULL
    /\ managerOverlaps = <<>>
    /\ currentExclusions = <<>> /\ dateStr = 0 /\ dayExclusions = <<>>
    /\ PageIdle
    /\ ForecastIdle /\ calendar = NULL /\ CsvIdle /\ TableIdle
    /\ OverlapIdle
    /\ DetectIdle
    /\ NavIdle
    /\ SummaryIdle

NextResolve ==
    \/ LoadOverlaps
    \/ \E k \in 1..totalOverlaps, confirmed \in BOOLEAN,
          resolution \in Resolutions :
           ResolveOverlap(k, confirmed, resolution)
    \/ \E q \in inflight : ShiftResponse(q)

SpecResolve == InitResolve /\ [][NextResolve]_vars

(***************************************************************************)
(* Claims about resolveOverlap (checked under SpecResolve).                *)
(***************************************************************************)
\* the shifts a DELETE is in flight for
Deleting == {q.id : q \in {r \in inflight : r.req = "DELETE /api/shifts/id"}}

\* the shift the answer names in row k, if any
Chosen(k, confirmed, resolution) ==
    IF confirmed /\ resolution = "1" THEN {overlapsView.rows[k].shift1_id}
    ELSE IF confirmed /\ resolution = "2" THEN {overlapsView.rows[k].shift2_id}
    ELSE {}

StoredIds == {storedShifts[i].id : i \in 1..Len(storedShifts)}

\* C27: resolveOverlap deletes at most one of the two conflicting shifts,
\* and only after the user confirms and chooses option 1 (the first shift)
\* or 2 (the second); cancelling, choosing 3 or entering anything else
\* deletes nothing; no other step of the view asks for a deletion, and a
\* shift disappears only when its DELETE was asked for.
C27_ResolveDeletesChosen ==
    [][/\ \A k \in 1..totalOverlaps, confirmed \in BOOLEAN,
             resolution \in Resolutions :
              ResolveOverlap(k, confirmed, resolution) =>
                  /\ Deleting' \ Deleting \subseteq Chosen(k, confirmed, resolution)
                  /\ Deleting' \subseteq
                         Deleting \cup Chosen(k, confirmed, resolution)
                  /\ storedShifts' = storedShifts
       /\ Cardinality(Deleting' \ Deleting) <= 1
       /\ LoadOverlaps => Deleting' = Deleting /\ storedShifts' = storedShifts
       /\ StoredIds \ StoredIds' \subseteq Deleting
       /\ Cardinality(StoredIds \ StoredIds') <= 1]_vars

\* option 2 was chosen for a row: the DELETE of its second shift, and of no
\* other shift, is in flight
C27_Witness ==
    /\ overlapsView # NULL
    /\ \E k \in 1..Len(overlapsView.rows) :
           Deleting = {overlapsView.rows[k].shift2_id}

(***************************************************************************)
(* The exclusions table (exclusions.js): loadExclusions,                   *)
(* applyExclusionsFilter, renderExclusionsTable, the pagination controls,  *)
(* the future-exclusions checkbox and deleteExclusion.                     *)
(***************************************************************************)
\* exclusions held by the payroll API; requests of the view in flight;
\* the highest page number followed
MaxTableExclusions == 3
MaxTableRequests == 1
MaxPage == 4

\* start dates before and after the end of the current period; the end
\* dates /api/payroll/periods/current answers with, 0 when it fails or the
\* period has no end_date (currentPeriodEnd stays null)
StartDates == {1, 3}
PeriodEnds == {0, 2}

TableExclusionLists(n) ==
    { [i \in 1..n |-> [id |-> i, start_date |-> d[i]]] :
          d \in [1..n -> StartDates] }

\* initExclusionsPagination; allExclusionsUnfiltered and currentPeriodEnd
\* are first read after loadExclusions has set them
initExclusionsPagination(pagination) ==
    IF pagination = NULL
    THEN [currentPage |-> 1, itemsPerPage |-> 10, totalItems |-> 0,
          allExclusions |-> <<>>, allExclusionsUnfiltered |-> <<>>,
          currentPeriodEnd |-> 0]
    ELSE pagination

\* the exclusions that pass the filter
filteredExclusions(list, checked, currentPeriodEnd) ==
    IF checked /\ currentPeriodEnd # 0
    THEN SelectSeq(list, LAMBDA exc : exc.start_date <= currentPeriodEnd)
    ELSE list

\* applyExclusionsFilter: it stores the filtered list and resets the page;
\* it does not render
applyExclusionsFilter(pagination, checked) ==
    LET filtered == filteredExclusions(pagination.allExclusionsUnfiltered,
                        checked, pagination.currentPeriodEnd)
        totalPages == totalPagesOf(Len(filtered), pagination.itemsPerPage)
    IN  [pagination EXCEPT
            !.allExclusions = filtered,
            !.totalItems = Len(filtered),
            !.currentPage = IF pagination.currentPage > totalPages
                            THEN 1 ELSE pagination.currentPage]

\* renderExclusionsTable and renderExclusionsPagination: the rows, the
\* pages the enabled buttons lead to, the values of the page-size options
renderExclusionsTable(pagination) ==
    LET cp == pagination.currentPage
        startIndex == (cp - 1) * pagination.itemsPerPage
        endIndex == Min(startIndex + pagination.itemsPerPage,
                        pagination.totalItems)
        ceil == totalPagesOf(pagination.totalItems, pagination.itemsPerPage)
        totalPages == IF ceil = 0 THEN 1 ELSE ceil
        startPage0 == Max(1, cp - 2)
        endPage == Min(totalPages, startPage0 + 4)
        startPage == IF endPage - startPage0 + 1 < 5
                     THEN Max(1, endPage - 4) ELSE startPage0
    IN  [rows |-> slice(pagination.allExclusions, startIndex, endIndex),
         pages |-> (IF cp = 1 THEN {} ELSE {1, cp - 1})
                   \cup (startPage..endPage)
                   \cup (IF cp = totalPages THEN {} ELSE {cp + 1, totalPages}),
         sizes |-> {10, 25, 50, pagination.totalItems}]

TableRequest(method, id, list) ==
    [req |-> method, id |-> id, exclusions |-> list]

InitTable ==
    /\ \E n \in 0..MaxTableExclusions :
           serverExclusions \in TableExclusionLists(n)
    /\ exclusionsPagination = NULL
    /\ checkbox = [checked |-> FALSE, hasListener |-> FALSE]
    /\ exclusionsTable = NULL
    /\ today = 0 /\ serverPeriods = <<>> /\ nextPeriodId = 1 /\ configures = 0
    /\ periods = <<>> /\ currentPeriod = NULL /\ currentView = "exclusions"
    /\ selectedChildId = NoChild /\ periodLabel = [text |-> ""] /\ toast = ""
    /\ inflight = {} /\ lastNav = NULL /\ trail = <<>>
    /\ CsvIdle
    /\ ForecastIdle /\ calendar = NULL /\ PageIdle
    /\ OverlapIdle
    /\ DetectIdle
    /\ SummaryIdle
    /\ ExclusionIdle

exceptTable == <<overlapVars, detectVars, summaryVars, exclusionVars,
                 shiftVars, forecastVars, calendar, pageVars, csvVars>>
tableApp == <<serverVars, periods, currentPeriod, currentView,
              selectedChildId, periodLabel, lastNav, trail>>

\* loadExclusions up to its first await
LoadExclusions ==
    /\ Cardinality(inflight) < MaxTableRequests
    /\ exclusionsPagination' = initExclusionsPagination(exclusionsPagination)
    /\ inflight' = inflight \cup
           {TableRequest("GET /api/payroll/exclusions", 0, <<>>)}
    /\ UNCHANGED <<serverExclusions, checkbox, exclusionsTable, toast,
                   tableApp, exceptTable>>

\* the exclusions arrive; loadExclusions asks for the current period
ExclusionsResponse(q) ==
    /\ q.req = "GET /api/payroll/exclusions"
    /\ inflight' = (inflight \ {q}) \cup
           {TableRequest("GET /api/payroll/periods/current", 0,
                         serverExclusions)}
    /\ UNCHANGED <<serverExclusions, exclusionsPagination, checkbox,
                   exclusionsTable, toast, tableApp, exceptTable>>

\* the request for the exclusions fails: loadExclusions throws
ExclusionsFailed(q) ==
    /\ q.req = "GET /api/payroll/exclusions"
    /\ inflight' = inflight \ {q}
    /\ UNCHANGED <<serverExclusions, exclusionsPagination, checkbox,
                   exclusionsTable, toast, tableApp, exceptTable>>

\* the current period arrives, or its request fails (currentPeriodEnd = 0):
\* the rest of loadExclusions
CurrentPeriodResponse(q, currentPeriodEnd) ==
    /\ q.req = "GET /api/payroll/periods/current"
    /\ inflight' = inflight \ {q}
    /\ exclusionsPagination' =
           applyExclusionsFilter(
               [exclusionsPagination EXCEPT
                    !.allExclusionsUnfiltered = q.exclusions,
                    !.currentPeriodEnd = currentPeriodEnd],
               checkbox.checked)
    /\ checkbox' = [checkbox EXCEPT !.hasListener = TRUE]
    /\ exclusionsTable' = renderExclusionsTable(exclusionsPagination')
    /\ UNCHANGED <<serverExclusions, toast, tableApp, exceptTable>>

\* the user toggles #filter-future-exclusions; its change listener, once
\* registered, calls applyExclusionsFilter only
ToggleFilter ==
    /\ checkbox' = [checkbox EXCEPT !.checked = ~ checkbox.checked]
    /\ exclusionsPagination' =
           IF checkbox.hasListener
           THEN applyExclusionsFilter(exclusionsPagination, ~ checkbox.checked)
           ELSE exclusionsPagination
    /\ UNCHANGED <<serverExclusions, exclusionsTable, inflight, toast,
                   tableApp, exceptTable>>

\* a click on an enabled pagination button of the rendered controls
goToExclusionsPage(page) ==
    /\ exclusionsTable # NULL
    /\ page \in exclusionsTable.pages
    /\ page <= MaxPage
    /\ exclusionsPagination' =
           [exclusionsPagination EXCEPT !.currentPage = page]
    /\ exclusionsTable' = renderExclusionsTable(exclusionsPagination')
    /\ UNCHANGED <<serverExclusions, checkbox, inflight, toast, tableApp,
                   exceptTable>>

\* another option of the rendered page-size selector is chosen; the option
\* "All" of an empty list (value 0) is left out
changeExclusionsPageSize(size) ==
    /\ exclusionsTable # NULL
    /\ size \in exclusionsTable.sizes
    /\ size > 0
    /\ size # exclusionsPagination.itemsPerPage
    /\ exclusionsPagination' =
           [exclusionsPagination EXCEPT !.itemsPerPage = size,
                                        !.currentPage = 1]
    /\ exclusionsTable' = renderExclusionsTable(exclusionsPagination')
    /\ UNCHANGED <<serverExclusions, checkbox, inflight, toast, tableApp,
                   exceptTable>>

\* deleteExclusion from the Delete button of a shown row, up to its await
deleteExclusion(k, confirmed) ==
    /\ exclusionsTable # NULL
    /\ k \in 1..Len(exclusionsTable.rows)
    /\ Cardinality(inflight) < MaxTableRequests
    /\ inflight' =
           IF confirmed
           THEN inflight \cup
                    {TableRequest("DELETE /api/payroll/exclusions/id",
                                  exclusionsTable.rows[k].id, <<>>)}
           ELSE inflight
    /\ UNCHANGED <<serverExclusions, exclusionsPagination, checkbox,
                   exclusionsTable, toast, tableApp, exceptTable>>

\* the DELETE is answered: toast, then loadExclusions up to its first await
DeleteExclusionResponse(q) ==
    /\ q.req = "DELETE /api/payroll/exclusions/id"
    /\ serverExclusions' =
           SelectSeq(serverExclusions, LAMBDA exc : exc.id # q.id)
    /\ toast' = "Exclusion period removed"
    /\ inflight' = (inflight \ {q}) \cup
           {TableRequest("GET /api/payroll/exclusions", 0, <<>>)}
    /\ UNCHANGED <<exclusionsPagination, checkbox, exclusionsTable, tableApp,
                   exceptTable>>

\* the DELETE fails: the error toast
DeleteExclusionFailed(q) ==
    /\ q.req = "DELETE /api/payroll/exclusions/id"
    /\ toast' = "error"
    /\ inflight' = inflight \ {q}
    /\ UNCHANGED <<serverExclusions, exclusionsPagination, checkbox,
                   exclusionsTable, tableApp, exceptTable>>

NextTable ==
    \/ LoadExclusions
    \/ \E q \in inflight : ExclusionsResponse(q)
    \/ \E q \in inflight : ExclusionsFailed(q)
    \/ \E q \in inflight, currentPeriodEnd \in PeriodEnds :
           CurrentPeriodResponse(q, currentPeriodEnd)
    \/ ToggleFilter
    \/ \E page \in 1..MaxPage : goToExclusionsPage(page)
    \/ \E size \in {10, 25, 50} \cup (1..MaxTableExclusions) :
           changeExclusionsPageSize(size)
    \/ \E k \in 1..MaxTableExclusions, confirmed \in BOOLEAN :
           deleteExclusion(k, confirmed)
    \/ \E q \in inflight : DeleteExclusionResponse(q)
    \/ \E q \in inflight : DeleteExclusionFailed(q)

SpecTable == InitTable /\ [][NextTable]_vars

(***************************************************************************)
(* Claims about the exclusions table (checked under SpecTable).            *)
(***************************************************************************)
\* the loaded exclusions that pass the current filter setting
PassingFilter ==
    filteredExclusions(exclusionsPagination.allExclusionsUnfiltered,
                       checkbox.checked, exclusionsPagination.currentPeriodEnd)

\* C28: once the table is rendered, its rows are exactly page currentPage
\* of the loaded exclusions that pass the current filter setting (filter on
\* and a known current period: start_date <= the period's end date;
\* otherwise all), and currentPage lies in 1..max(1, total pages).
C28_TableIsCurrentPage ==
    exclusionsTable # NULL =>
        LET cp == exclusionsPagination.currentPage
            size == exclusionsPagination.itemsPerPage
            n == Len(PassingFilter)
        IN  /\ exclusionsTable.rows =
                   slice(PassingFilter, Min((cp - 1) * size, n),
                         Min(cp * size, n))
            /\ cp \in 1..Max(1, totalPagesOf(n, size))

====
